---- MODULE Spec2Model ----
(***************************************************************************)
(* Model of the effect-slack service generator: lexical helpers            *)
(* (scripts/lib/helpers.ts), source parser (lib/parser.ts), code renderer  *)
(* (scripts/lib/codegen.ts) and the generate/check orchestrator            *)
(* (lib/generator.ts, lib/errors.ts).                                      *)
(*                                                                         *)
(* Identifiers and paths are sequences of one-character strings, so that   *)
(* casing, splitting and concatenation are computed as the code computes   *)
(* them.  Opaque texts that the code only compares (class names, file      *)
(* texts, hashes, versions) are TLA+ strings.                              *)
(***************************************************************************)
EXTENDS Integers, Sequences, FiniteSets, TLC

\* ------------------------------------------------------------------------
\* Bounds of the model
\* ------------------------------------------------------------------------
MaxNodes == 3
MaxStmts == 2
MaxPath == 2
MaxTop == 2
MaxClock == 2
MaxStr == 3
MaxRetriesOption == 2

\* ------------------------------------------------------------------------
\* Characters
\* ------------------------------------------------------------------------
LowerChars == <<"a","b","c","d","e","f","g","h","i","j","k","l","m",
                "n","o","p","q","r","s","t","u","v","w","x","y","z">>

UpperChars == <<"A","B","C","D","E","F","G","H","I","J","K","L","M",
                "N","O","P","Q","R","S","T","U","V","W","X","Y","Z">>

\* String.prototype.toUpperCase on one character
toUpperCase(c) ==
  IF \E i \in DOMAIN LowerChars : LowerChars[i] = c
  THEN UpperChars[CHOOSE i \in DOMAIN LowerChars : LowerChars[i] = c]
  ELSE c

\* part.charAt(0).toUpperCase() + part.slice(1)
Capitalize(s) ==
  IF s = <<>> THEN <<>> ELSE <<toUpperCase(s[1])>> \o Tail(s)

RECURSIVE Join(_, _)
\* Array.prototype.join
Join(parts, sep) ==
  IF parts = <<>> THEN <<>>
  ELSE IF Len(parts) = 1 THEN parts[1]
  ELSE parts[1] \o sep \o Join(Tail(parts), sep)

RECURSIVE Concat(_)
\* Array.prototype.join("")
Concat(parts) ==
  IF parts = <<>> THEN <<>> ELSE parts[1] \o Concat(Tail(parts))

\* ------------------------------------------------------------------------
\* helpers.ts
\* ------------------------------------------------------------------------
\* the character class of the split regular expression /[._-]/
Separators_noHyphen == {".", "_"}

Separators == {".", "_", "-"}

RECURSIVE SplitAcc(_, _, _)
SplitAcc(s, cur, acc) ==
  IF s = <<>> THEN Append(acc, cur)
  ELSE IF s[1] \in Separators
       THEN SplitAcc(Tail(s), <<>>, Append(acc, cur))
       ELSE SplitAcc(Tail(s), Append(cur, s[1]), acc)

\* str.split(/[._-]/)
Split(s) == SplitAcc(s, <<>>, <<>>)

toPascalCase(str) ==
  LET parts == Split(str)
  IN Concat([i \in DOMAIN parts |-> Capitalize(parts[i])])

\* the set without its last entry
RESERVED_WORDS_six ==
  { <<"d","e","l","e","t","e">>,
    <<"i","m","p","o","r","t">>,
    <<"e","x","p","o","r","t">>,
    <<"d","e","f","a","u","l","t">>,
    <<"c","l","a","s","s">>,
    <<"f","u","n","c","t","i","o","n">> }

RESERVED_WORDS ==
  { <<"d","e","l","e","t","e">>,
    <<"i","m","p","o","r","t">>,
    <<"e","x","p","o","r","t">>,
    <<"d","e","f","a","u","l","t">>,
    <<"c","l","a","s","s">>,
    <<"f","u","n","c","t","i","o","n">>,
    <<"r","e","t","u","r","n">> }

safeMethodName(name) ==
  IF name \in RESERVED_WORDS THEN name \o <<"_">> ELSE name

uniqueMethodVarName(namespacePath, methodName) ==
  LET safeName == safeMethodName(methodName)
      prefix == Concat([i \in DOMAIN namespacePath |-> Capitalize(namespacePath[i])])
  IN IF Len(namespacePath) = 0 THEN safeName
     ELSE prefix \o Capitalize(safeName)

RECURSIVE countNs(_)
RECURSIVE countNsSeq(_)
\* countMethods.countNs: ns.methods.length plus the counts of the sub-namespaces
countNs(ns) == Len(ns.methods) + countNsSeq(ns.subNamespaces)
countNsSeq(nss) ==
  IF nss = <<>> THEN 0 ELSE countNs(nss[1]) + countNsSeq(Tail(nss))

countMethods(namespaces) == countNsSeq(namespaces)

\* ------------------------------------------------------------------------
\* Syntax tree (the node shapes of the TypeScript compiler API that the
\* parser inspects).
\*   statement   [kind, name, members, children]
\*   member      [kind, nameKind, name, type, comment]
\*   type node   [kind, typeName, typeArguments, members]
\*   comment     [present, hasDescription, payload, hasDeprecated]
\* ------------------------------------------------------------------------
NoComment ==
  [present |-> FALSE, hasDescription |-> FALSE, payload |-> <<>>, hasDeprecated |-> FALSE]

NoType == [kind |-> "None", typeName |-> <<>>, typeArguments |-> <<>>, members |-> <<>>]

AnyKeyword ==
  [kind |-> "AnyKeyword", typeName |-> <<>>, typeArguments |-> <<>>, members |-> <<>>]

TypeLiteral(members) ==
  [kind |-> "TypeLiteral", typeName |-> <<>>, typeArguments |-> <<>>, members |-> members]

\* typeName is the referenced name cut in chunks, so that a name that only
\* begins with a marker is <<marker, rest>>
TypeReference(typeName, typeArguments) ==
  [kind |-> "TypeReference", typeName |-> typeName,
   typeArguments |-> typeArguments, members |-> <<>>]

PropertySignature(name, type) ==
  [kind |-> "PropertySignature", nameKind |-> "Identifier", name |-> name,
   type |-> type, comment |-> NoComment]

PropertyDeclaration(name, type) ==
  [kind |-> "PropertyDeclaration", nameKind |-> "Identifier", name |-> name,
   type |-> type, comment |-> NoComment]

ClassDeclaration(name, members) ==
  [kind |-> "ClassDeclaration", name |-> name, members |-> members, children |-> <<>>]

ModuleDeclaration(name, children) ==
  [kind |-> "ModuleDeclaration", name |-> name, members |-> <<>>, children |-> children]

\* const X = class Methods { ... }: a class expression, not a declaration
ClassExpressionStatement(name, members) ==
  [kind |-> "ClassExpression", name |-> name, members |-> members, children |-> <<>>]

SourceFile(statements) ==
  [kind |-> "SourceFile", name |-> "", members |-> <<>>, children |-> statements]

RequiredMarker == "MethodWithRequiredArgument"
OptionalMarker == "MethodWithOptionalArgument"

\* ------------------------------------------------------------------------
\* parser.ts
\* ------------------------------------------------------------------------
WhiteOrStar == {" ", "\n", "*"}

RECURSIVE CollapseRuns(_, _)
\* .replace(/\s*\*\s*/g, " ").replace(/\s+/g, " "): every run of white space
\* and asterisks becomes one space
CollapseRuns(tokens, inRun) ==
  IF tokens = <<>> THEN <<>>
  ELSE IF tokens[1] \in WhiteOrStar
       THEN (IF inRun THEN <<>> ELSE <<" ">>) \o CollapseRuns(Tail(tokens), TRUE)
       ELSE <<tokens[1]>> \o CollapseRuns(Tail(tokens), FALSE)

\* String.prototype.trim on a text whose runs are already collapsed
Trim(tokens) ==
  LET a == IF tokens # <<>> /\ tokens[1] = " " THEN Tail(tokens) ELSE tokens
  IN IF a # <<>> /\ a[Len(a)] = " " THEN SubSeq(a, 1, Len(a) - 1) ELSE a

getJsDocInfo(comment) ==
  IF ~comment.present
  THEN [description |-> [defined |-> FALSE, value |-> <<>>], deprecated |-> FALSE]
  ELSE [description |->
          IF comment.hasDescription
          THEN [defined |-> TRUE, value |-> Trim(CollapseRuns(comment.payload, FALSE))]
          ELSE [defined |-> FALSE, value |-> <<>>],
        deprecated |-> comment.hasDeprecated]

\* typeText.startsWith(marker)
startsWith(typeNode, marker) ==
  Len(typeNode.typeName) >= 1 /\ typeNode.typeName[1] = marker

\* `${apiPathPrefix}.${memberName}`
apiPathOf_flat(apiPathPrefix, memberName) == memberName

apiPathOf(apiPathPrefix, memberName) == apiPathPrefix \o <<".">> \o memberName

\* methods.push / subNamespaces.push / namespaces.push
push_front(list, item) == <<item>> \o list

push(list, item) == Append(list, item)

MethodInfoOf(member, apiPathPrefix) ==
  LET jsDoc == getJsDocInfo(member.comment)
  IN [name |-> member.name,
      apiPath |-> apiPathOf(apiPathPrefix, member.name),
      argsType |-> member.type.typeArguments[1],
      responseType |-> member.type.typeArguments[2],
      isOptionalArgs |-> startsWith(member.type, OptionalMarker),
      description |-> jsDoc.description,
      deprecated |-> jsDoc.deprecated]

Null == [kind |-> "null"]

RECURSIVE parseSubNamespace(_, _, _)
RECURSIVE parseMembers(_, _, _)
\* the typeNode.members.forEach loop shared (as duplicated text) by
\* parseNamespace and parseSubNamespace; acc is [methods, subNamespaces]
parseMembers(members, apiPathPrefix, acc) ==
  IF members = <<>> THEN acc
  ELSE
    LET m == members[1]
        isMethod ==
          /\ m.type.kind = "TypeReference"
          /\ startsWith(m.type, RequiredMarker) \/ startsWith(m.type, OptionalMarker)
          /\ Len(m.type.typeArguments) = 2
        sub == parseSubNamespace(m.type, m.name, apiPathOf(apiPathPrefix, m.name))
        acc1 ==
          IF m.kind = "PropertySignature" /\ m.nameKind = "Identifier"
          THEN IF isMethod
               THEN [acc EXCEPT !.methods = push(@, MethodInfoOf(m, apiPathPrefix))]
               ELSE IF m.type.kind = "TypeLiteral" /\ sub # Null
                    THEN [acc EXCEPT !.subNamespaces = push(@, sub)]
                    ELSE acc
          ELSE acc
    IN parseMembers(Tail(members), apiPathPrefix, acc1)

\* methods.length === 0 && subNamespaces.length === 0 of parseSubNamespace
isEmptyResult_never(r) == FALSE

isEmptyResult(r) == Len(r.methods) = 0 /\ Len(r.subNamespaces) = 0

parseSubNamespace(typeNode, name, apiPathPrefix) ==
  LET r == parseMembers(typeNode.members, apiPathPrefix,
                        [methods |-> <<>>, subNamespaces |-> <<>>])
  IN IF isEmptyResult(r) THEN Null
     ELSE [name |-> name, methods |-> r.methods, subNamespaces |-> r.subNamespaces]

\* the return statement of parseNamespace, which tests nothing
namespaceResult_filtered(name, r) ==
  IF Len(r.methods) = 0 /\ Len(r.subNamespaces) = 0 THEN Null
  ELSE [name |-> name, methods |-> r.methods, subNamespaces |-> r.subNamespaces]

namespaceResult(name, r) ==
  [name |-> name, methods |-> r.methods, subNamespaces |-> r.subNamespaces]

parseNamespace(member, name, apiPathPrefix) ==
  IF member.type.kind # "TypeLiteral" THEN Null
  ELSE namespaceResult(name, parseMembers(member.type.members, apiPathPrefix,
                                          [methods |-> <<>>, subNamespaces |-> <<>>]))

apiCallName == <<"a","p","i","C","a","l","l">>
filesUploadV2Name == <<"f","i","l","e","s","U","p","l","o","a","d","V","2">>

\* !(name !== "apiCall" && name !== "filesUploadV2")
isSkippedName_apiCallOnly(name) == name = apiCallName

isSkippedName(name) == name = apiCallName \/ name = filesUploadV2Name

RECURSIVE visitMembers(_, _)
\* node.members.forEach of parseMethodsSource.visit
visitMembers(members, namespaces) ==
  IF members = <<>> THEN namespaces
  ELSE
    LET member == members[1]
        namespace == parseNamespace(member, member.name, member.name)
        ns1 ==
          IF /\ member.kind = "PropertyDeclaration"
             /\ member.nameKind = "Identifier"
             /\ ~isSkippedName(member.name)
             /\ namespace # Null
          THEN push(namespaces, namespace)
          ELSE namespaces
    IN visitMembers(Tail(members), ns1)

\* ts.isClassDeclaration(node) && node.name?.text === "Methods"
isMethodsClass_anyClass(node) == node.kind = "ClassDeclaration"

isMethodsClass(node) == node.kind = "ClassDeclaration" /\ node.name = "Methods"

RECURSIVE visit(_, _)
RECURSIVE visitChildren(_, _)
\* st is [foundMethodsClass, namespaces], the two variables visit closes over
visit(node, st) ==
  LET st1 == IF isMethodsClass(node)
             THEN [foundMethodsClass |-> TRUE,
                   namespaces |-> visitMembers(node.members, st.namespaces)]
             ELSE st
  IN visitChildren(node.children, st1)

\* ts.forEachChild(node, visit)
visitChildren(children, st) ==
  IF children = <<>> THEN st
  ELSE visitChildren(Tail(children), visit(children[1], st))

Left(tag) == [either |-> "Left", tag |-> tag, right |-> <<>>]
Right(value) == [either |-> "Right", tag |-> "", right |-> value]

\* parseMethodsSource applied to the tree ts.createSourceFile returns
parseMethodsSource(sourceFile) ==
  LET st == visit(sourceFile, [foundMethodsClass |-> FALSE, namespaces |-> <<>>])
  IN IF ~st.foundMethodsClass THEN Left("MethodsClassNotFoundError")
     ELSE Right(st.namespaces)

\* ------------------------------------------------------------------------
\* codegen.ts
\* A rendered text is kept as the fixed template's variable parts (a record)
\* or as the sequence of its pieces; the template's own words are constant.
\* ------------------------------------------------------------------------
\* method.description ? ... : deprecatedJsDoc
docOf(method) ==
  IF method.description.defined /\ method.description.value # <<>>
  THEN [kind |-> "description", text |-> method.description.value,
        deprecatedTag |-> method.deprecated]
  ELSE IF method.deprecated
       THEN [kind |-> "deprecated", text |-> <<>>, deprecatedTag |-> TRUE]
       ELSE [kind |-> "none", text |-> <<>>, deprecatedTag |-> FALSE]

generateMethodCode_spanAttribute(method, clientPath, spanName, varName) ==
  [doc |-> docOf(method),
   varName |-> varName,
   argsParam |-> (IF method.isOptionalArgs
                  THEN <<"a","r","g","s","?",":"," ">>
                  ELSE <<"a","r","g","s",":"," ">>) \o method.argsType,
   responseType |-> method.responseType,
   try |-> clientPath \o <<"(","a","r","g","s",")">>,
   spanName |-> spanName,
   slackMethod |-> spanName]

generateMethodCode(method, clientPath, spanName, varName) ==
  [doc |-> docOf(method),
   varName |-> varName,
   argsParam |-> (IF method.isOptionalArgs
                  THEN <<"a","r","g","s","?",":"," ">>
                  ELSE <<"a","r","g","s",":"," ">>) \o method.argsType,
   responseType |-> method.responseType,
   try |-> clientPath \o <<"(","a","r","g","s",")">>,
   spanName |-> spanName,
   slackMethod |-> method.apiPath]

\* Map.prototype.set on an insertion-ordered map kept as <<[key, value], ...>>
MapSet(map, key, value) ==
  IF \E i \in DOMAIN map : map[i].key = key
  THEN [i \in DOMAIN map |->
          IF map[i].key = key THEN [key |-> key, value |-> value] ELSE map[i]]
  ELSE Append(map, [key |-> key, value |-> value])

ClientRoot == <<"c","l","i","e","n","t",".">>

RECURSIVE generateNamespaceMethods(_, _, _, _)
RECURSIVE generateSubNamespaces(_, _, _, _, _)
generateNamespaceMethods(namespace, clientBasePath, spanNamePrefix, varNamePath) ==
  LET implementations ==
        [i \in DOMAIN namespace.methods |->
           LET method == namespace.methods[i]
               clientPath == ClientRoot \o clientBasePath \o <<".">> \o method.name
               spanName == spanNamePrefix \o <<".">> \o safeMethodName(method.name)
               varName == uniqueMethodVarName(varNamePath, method.name)
           IN [implementation |-> generateMethodCode(method, clientPath, spanName, varName),
               varName |-> varName,
               exportName |-> safeMethodName(method.name)]]
  IN [implementations |-> implementations,
      subNamespaceResults |->
        generateSubNamespaces(namespace.subNamespaces, clientBasePath,
                              spanNamePrefix, varNamePath, <<>>)]

\* the loop over namespace.subNamespaces of generateNamespaceMethods
generateSubNamespaces(subs, clientBasePath, spanNamePrefix, varNamePath, map) ==
  IF subs = <<>> THEN map
  ELSE
    LET subNs == subs[1]
        result == generateNamespaceMethods(subNs,
                    clientBasePath \o <<".">> \o subNs.name,
                    spanNamePrefix \o <<".">> \o subNs.name,
                    Append(varNamePath, subNs.name))
    IN generateSubNamespaces(Tail(subs), clientBasePath, spanNamePrefix,
                             varNamePath, MapSet(map, subNs.name, result))

RECURSIVE buildReturnObject(_, _, _)
RECURSIVE buildNested(_, _)
\* a returned object that lists the nested namespaces before the direct methods
buildReturnObject_nestedFirst(methods, subNamespaces, indent) ==
  buildNested(subNamespaces, indent)
  \o [i \in DOMAIN methods |->
       [indent |-> indent, kind |-> "shorthand", key |-> methods[i].exportName,
        value |-> methods[i].exportName, nested |-> <<>>]]

\* the parts joined by ",\n"; indent is the number of leading spaces
buildReturnObject(methods, subNamespaces, indent) ==
  [i \in DOMAIN methods |->
     IF methods[i].exportName = methods[i].varName
     THEN [indent |-> indent, kind |-> "shorthand", key |-> methods[i].exportName,
           value |-> methods[i].exportName, nested |-> <<>>]
     ELSE [indent |-> indent, kind |-> "pair", key |-> methods[i].exportName,
           value |-> methods[i].varName, nested |-> <<>>]]
  \o buildNested(subNamespaces, indent)

buildNested(subNamespaces, indent) ==
  IF subNamespaces = <<>> THEN <<>>
  ELSE <<[indent |-> indent, kind |-> "nested", key |-> subNamespaces[1].key,
          value |-> <<>>,
          nested |-> buildReturnObject(subNamespaces[1].value.implementations,
                                       subNamespaces[1].value.subNamespaceResults,
                                       indent + 2)]>>
       \o buildNested(Tail(subNamespaces), indent)

RECURSIVE collectAllImplementations(_)
RECURSIVE collectFromSubResults(_)
collectAllImplementations(result) ==
  result.implementations \o collectFromSubResults(result.subNamespaceResults)

collectFromSubResults(map) ==
  IF map = <<>> THEN <<>>
  ELSE collectAllImplementations(map[1].value) \o collectFromSubResults(Tail(map))

RECURSIVE collectTypes(_)
RECURSIVE collectTypesSeq(_)
\* the union of the two sets collectTypes returns (generateServiceFile merges them)
collectTypes(ns) ==
  {ns.methods[i].argsType : i \in DOMAIN ns.methods}
    \cup {ns.methods[i].responseType : i \in DOMAIN ns.methods}
    \cup collectTypesSeq(ns.subNamespaces)

collectTypesSeq(nss) ==
  IF nss = <<>> THEN {} ELSE collectTypes(nss[1]) \cup collectTypesSeq(Tail(nss))

\* UTF-16 code unit order of the characters used in type names
CodeOrder == <<"-", ".", "0", "1", "2", "3", "4", "5", "6", "7", "8", "9">>
             \o UpperChars \o <<"_">> \o LowerChars

CharCode(c) == CHOOSE i \in DOMAIN CodeOrder : CodeOrder[i] = c

RECURSIVE StringLess(_, _)
\* a < b in the default comparison of Array.prototype.sort
StringLess(a, b) ==
  IF b = <<>> THEN FALSE
  ELSE IF a = <<>> THEN TRUE
  ELSE IF a[1] = b[1] THEN StringLess(Tail(a), Tail(b))
  ELSE CharCode(a[1]) < CharCode(b[1])

RECURSIVE SortStrings_descending(_)
\* a sort from the greatest string down
SortStrings_descending(set) ==
  IF set = {} THEN <<>>
  ELSE LET greatest == CHOOSE x \in set : \A y \in set \ {x} : StringLess(y, x)
       IN <<greatest>> \o SortStrings_descending(set \ {greatest})

RECURSIVE SortStrings(_)
\* [...set].sort()
SortStrings(set) ==
  IF set = {} THEN <<>>
  ELSE LET least == CHOOSE x \in set : \A y \in set \ {x} : StringLess(x, y)
       IN <<least>> \o SortStrings(set \ {least})

ServiceSuffix == <<"S","e","r","v","i","c","e">>
TsExt == <<".","t","s">>
IndexFilename == <<"i","n","d","e","x",".","t","s">>

serviceNameOf(name) == toPascalCase(name) \o ServiceSuffix

\* the varNamePath generateServiceFile starts from, with the names of no namespace
rootVarNamePath_named(namespace) == <<namespace.name>>

rootVarNamePath(namespace) == <<>>

generateServiceFile(namespace) ==
  LET serviceName == serviceNameOf(namespace.name)
      result == generateNamespaceMethods(namespace, namespace.name, serviceName,
                                         rootVarNamePath(namespace))
      allImplementations == collectAllImplementations(result)
  IN [kind |-> "service",
      title |-> toPascalCase(namespace.name),
      serviceName |-> serviceName,
      importTypes |-> SortStrings(collectTypes(namespace)),
      implementations |->
        [i \in DOMAIN allImplementations |-> allImplementations[i].implementation],
      returnObj |-> buildReturnObject(result.implementations,
                                      result.subNamespaceResults, 6),
      exports |-> <<>>]

generateIndexFile(namespaces) ==
  [kind |-> "index",
   title |-> <<>>,
   serviceName |-> <<>>,
   importTypes |-> <<>>,
   implementations |-> <<>>,
   returnObj |-> <<>>,
   exports |->
     [i \in DOMAIN namespaces |->
        LET serviceName == serviceNameOf(namespaces[i].name)
        IN <<"export { ">> \o serviceName \o <<" } from \"./">>
             \o serviceName \o <<".js\"">>]]

\* the final files.push of generateAllFiles
indexEntry_none(namespaces) == <<>>

indexEntry(namespaces) ==
  <<[filename |-> IndexFilename, content |-> generateIndexFile(namespaces)]>>

\* the filename of a service file, `${serviceName}.ts`
serviceFilename_raw(name) == name \o ServiceSuffix \o TsExt

serviceFilename(name) == serviceNameOf(name) \o TsExt

generateAllFiles(namespaces) ==
  [i \in DOMAIN namespaces |->
     [filename |-> serviceFilename(namespaces[i].name),
      content |-> generateServiceFile(namespaces[i])]]
  \o indexEntry(namespaces)

\* ------------------------------------------------------------------------
\* Bounded inputs of the parser and the renderer
\* ------------------------------------------------------------------------
ReqType == TypeReference(<<RequiredMarker>>, << <<"T">>, <<"R">> >>)
OptType == TypeReference(<<OptionalMarker>>, << <<"C">>, <<"D">> >>)

MemberNames == { <<"a">>, <<"b">>, <<"A","B">> }
LeafTypes == { ReqType, AnyKeyword }

RECURSIVE ForestExact(_)
RECURSIVE TreeExact(_)
\* the member lists of a type literal that hold exactly n property signatures,
\* nested ones included
ForestExact(n) ==
  IF n = 0 THEN { <<>> }
  ELSE UNION { { <<t>> \o f : t \in TreeExact(k), f \in ForestExact(n - k) } : k \in 1..n }

TreeExact(k) ==
  (IF k = 1 THEN { PropertySignature(nm, ty) : nm \in MemberNames, ty \in LeafTypes }
   ELSE {})
  \cup { PropertySignature(nm, TypeLiteral(f)) : nm \in MemberNames, f \in ForestExact(k - 1) }

Forest(n) == UNION { ForestExact(k) : k \in 0..n }

TopNames == { <<"n">> }

\* one Methods class with one namespace member over every bounded member tree
DeepSources ==
  { SourceFile(<<ClassDeclaration("Methods", <<PropertyDeclaration(nm, TypeLiteral(f))>>)>>) :
      nm \in TopNames, f \in Forest(MaxNodes) }

OneMethod(nm) == TypeLiteral(<<PropertySignature(nm, ReqType)>>)

ClassMembers ==
  { PropertyDeclaration(<<"a">>, OneMethod(<<"m">>)),
    PropertyDeclaration(<<"A","B">>, OneMethod(<<"m">>)),
    PropertyDeclaration(<<"a","_","b">>,
      TypeLiteral(<<PropertySignature(<<"l">>, OptType),
                    PropertySignature(<<"d","e","l","e","t","e">>, ReqType)>>)),
    PropertyDeclaration(<<"e">>, TypeLiteral(<<>>)),
    PropertyDeclaration(<<"t">>,
      TypeLiteral(<<PropertySignature(<<"p">>,
                      TypeReference(<<RequiredMarker>>, << <<"A","b">>, <<"A","B">> >>)),
                    PropertySignature(<<"q">>,
                      TypeReference(<<OptionalMarker>>, << <<"A">>, <<"A","b">> >>))>>)),
    PropertyDeclaration(<<"d">>,
      TypeLiteral(<<PropertySignature(<<"s">>, OneMethod(<<"x">>)),
                    PropertySignature(<<"s">>, OneMethod(<<"y">>))>>)),
    PropertyDeclaration(<<"v">>, AnyKeyword),
    PropertyDeclaration(<<"u">>, NoType),
    PropertyDeclaration(apiCallName, AnyKeyword),
    PropertyDeclaration(filesUploadV2Name, OneMethod(<<"m">>)),
    [PropertyDeclaration(<<"s">>, OneMethod(<<"m">>)) EXCEPT !.nameKind = "StringLiteral"],
    [PropertyDeclaration(<<"f">>, OneMethod(<<"m">>)) EXCEPT !.kind = "MethodDeclaration"] }

SeqsUpTo(S, n) == UNION { [1..k -> S] : k \in 0..n }

\* one Methods class over every bounded list of class members
TopSources ==
  { SourceFile(<<ClassDeclaration("Methods", body)>>) : body \in SeqsUpTo(ClassMembers, MaxTop) }

SmallBodies == { <<>>, <<PropertyDeclaration(<<"a">>, OneMethod(<<"m">>))>> }

FlatStatements ==
  { ClassDeclaration(cn, b) : cn \in {"Methods", "methods", "Other"}, b \in SmallBodies }
  \cup { ClassExpressionStatement("Methods", <<>>),
         ClassDeclaration("Methods", <<PropertyDeclaration(<<"b">>, OneMethod(<<"m">>))>>) }

Statements ==
  FlatStatements
  \cup { ModuleDeclaration("ns", <<st>>) : st \in FlatStatements }
  \cup { [ClassDeclaration("Outer", <<>>) EXCEPT !.children = <<st>>] : st \in FlatStatements }

\* source files of every bounded list of statements, nested one level
ShapeSources == { SourceFile(sts) : sts \in SeqsUpTo(Statements, MaxStmts) }

PathNames ==
  { <<"a","p","p","s">>, <<"a","p","p","s","_","a">>, <<"a","B">>,
    <<"A">>, <<"p","e","r","m","i","s","s","i","o","n","s">>, <<"a","p","p","r","o","v","e","d">> }

MethodNames ==
  RESERVED_WORDS \cup { <<"l","i","s","t">>, <<"d","e","l","e","t","e","_">>,
                        <<"D","e","l","e","t","e">>, <<"p","o","s","t">> }

\* ------------------------------------------------------------------------
\* State
\* ------------------------------------------------------------------------
VARIABLES
  pSource,      \* parser run: the syntax tree of the input
  pParsed,      \* parser run: what parseMethodsSource returned
  pFiles,       \* parser run: what generateAllFiles returned
  pPhase,       \* parser run: "input", "parsed", "rendered"
  vnPath,       \* helper run: namespacePath given to uniqueMethodVarName
  vnName,       \* helper run: methodName given to uniqueMethodVarName
  vnResult,     \* helper run: the returned identifier
  vnPhase,      \* helper run: "input", "done"
  methodsFile,  \* file system: the input declaration, [status, content]
  packageJson,  \* file system: the manifest of @slack/web-api, [status, content]
  metadataFile, \* file system: _metadata.json, [status, content]
  dirExists,    \* file system: whether the output directory exists
  genFiles,     \* file system: filename -> content of the output directory
  pc,           \* orchestrator: position of the running program
  mode,         \* orchestrator: "generate" or "check" (the --check flag)
  slackVersion, \* generate: const slackVersion
  methodsContent, \* generate, check: const methodsContent
  namespaces,   \* generate: const namespaces
  methodsHash,  \* generate: const methodsHash; check: const currentHash
  files,        \* generate: const files
  idx,          \* generate: position of the for loop over files
  existingMetadata, \* check: const existingMetadata
  outcome,      \* orchestrator: how the program ended
  writeLog,     \* history: the write calls of this run, [path, ok]
  parserCalls,  \* history: the calls of parseMethodsSource in this run
  sInput,       \* string run: the argument given to the string helpers
  sSafe,        \* string run: what safeMethodName returned
  sPascal,      \* string run: what toPascalCase returned
  sPhase,       \* string run: the helpers already applied
  rPolicy,      \* retry run: which retry wrapper runs the effect
  rOptions,     \* retry run: the options argument of the wrapper
  rTimes,       \* retry run: the number of retries the wrapper allows
  rAttempts,    \* retry run: how often the effect has been attempted
  rLast,        \* retry run: the result of the latest attempt
  rWhile,       \* retry run: what the wrapper's predicate said of the latest error
  rRetriedOn,   \* history: the errors after which the effect was re-run
  rBaseDelay,   \* retry run: the base delay of the schedule, in milliseconds
  rDelay,       \* retry run: the delay before the next attempt, in milliseconds
  rStatus,      \* retry run: "off", "running", "done"
  rOutcome,     \* retry run: the result of the wrapped effect
  mThrown,      \* mapping run: the value the SDK call threw
  mResult,      \* mapping run: what mapSlackError returned
  mPhase        \* mapping run: "off", "input", "done"

parserVars == <<pSource, pParsed, pFiles, pPhase>>
helperVars == <<vnPath, vnName, vnResult, vnPhase>>
fsVars == <<methodsFile, packageJson, metadataFile, dirExists, genFiles>>
localVars == <<slackVersion, methodsContent, namespaces, methodsHash, files, idx,
               existingMetadata>>
runVars == <<pc, mode, localVars, outcome, writeLog, parserCalls>>
stringVars == <<sInput, sSafe, sPascal, sPhase>>
retryVars == <<rPolicy, rOptions, rTimes, rAttempts, rLast, rWhile, rRetriedOn, rBaseDelay,
               rDelay, rStatus, rOutcome>>
mapVars == <<mThrown, mResult, mPhase>>
vars == <<parserVars, helperVars, fsVars, runVars, stringVars, retryVars, mapVars>>

NotParsed == [either |-> "None", tag |-> "", right |-> <<>>]

ParserIdle ==
  /\ pSource = SourceFile(<<>>)
  /\ pParsed = NotParsed
  /\ pFiles = <<>>
  /\ pPhase = "off"

HelperIdle ==
  /\ vnPath = <<>>
  /\ vnName = <<>>
  /\ vnResult = <<>>
  /\ vnPhase = "off"

StringsIdle ==
  /\ sInput = <<>>
  /\ sSafe = <<>>
  /\ sPascal = <<>>
  /\ sPhase = {"off"}

NoResult == [kind |-> "none", tag |-> "", statusCode |-> 0, error |-> "", retryAfter |-> 0]

Undefined == [defined |-> FALSE, value |-> 0]
Defined(v) == [defined |-> TRUE, value |-> v]

RetryIdle ==
  /\ rPolicy = "off"
  /\ rOptions = Undefined
  /\ rTimes = 0
  /\ rAttempts = 0
  /\ rLast = NoResult
  /\ rWhile = FALSE
  /\ rRetriedOn = {}
  /\ rBaseDelay = 0
  /\ rDelay = 0
  /\ rStatus = "off"
  /\ rOutcome = NoResult

NoThrown == [isError |-> FALSE, code |-> Undefined, statusCode |-> Undefined,
             data |-> Undefined, retryAfter |-> Undefined]

MapIdle ==
  /\ mThrown = NoThrown
  /\ mResult = NoResult
  /\ mPhase = "off"

NoOutcome ==
  [kind |-> "none", tag |-> "", path |-> <<>>, expectedHash |-> "", currentHash |-> "",
   namespaceCount |-> 0, methodCount |-> 0, slackVersion |-> ""]

NoContent == [json |-> FALSE, generatedAt |-> 0, slackWebApiVersion |-> "",
              methodsFileHash |-> "", methodCount |-> 0]

Missing(content) == [status |-> "missing", content |-> content]
Unreadable(content) == [status |-> "unreadable", content |-> content]
Present(content) == [status |-> "ok", content |-> content]

LocalsIdle ==
  /\ slackVersion = ""
  /\ methodsContent = ""
  /\ namespaces = <<>>
  /\ methodsHash = ""
  /\ files = <<>>
  /\ idx = 0
  /\ existingMetadata = NoContent

RunIdle ==
  /\ pc = "idle"
  /\ mode = "none"
  /\ LocalsIdle
  /\ outcome = NoOutcome
  /\ writeLog = <<>>
  /\ parserCalls = 0

OrchestratorIdle ==
  /\ methodsFile = Missing("")
  /\ packageJson = Missing(NoContent)
  /\ metadataFile = Missing(NoContent)
  /\ dirExists = FALSE
  /\ genFiles = <<>>
  /\ RunIdle

\* ------------------------------------------------------------------------
\* Parser and renderer applied to the bounded inputs
\* ------------------------------------------------------------------------
InitParser ==
  /\ \/ pSource \in DeepSources
     \/ pSource \in TopSources
     \/ pSource \in ShapeSources
  /\ pParsed = NotParsed
  /\ pFiles = <<>>
  /\ pPhase = "input"
  /\ HelperIdle
  /\ OrchestratorIdle
  /\ StringsIdle
  /\ RetryIdle
  /\ MapIdle

Parse ==
  /\ pPhase = "input"
  /\ pParsed' = parseMethodsSource(pSource)
  /\ pPhase' = "parsed"
  /\ UNCHANGED <<pSource, pFiles, helperVars, mapVars, fsVars, runVars, stringVars, retryVars>>

Render ==
  /\ pPhase = "parsed"
  /\ pParsed.either = "Right"
  /\ pFiles' = generateAllFiles(pParsed.right)
  /\ pPhase' = "rendered"
  /\ UNCHANGED <<pSource, pParsed, helperVars, mapVars, fsVars, runVars, stringVars, retryVars>>

NextParser == Parse \/ Render

SpecParser == InitParser /\ [][NextParser]_vars

\* ------------------------------------------------------------------------
\* uniqueMethodVarName applied to the bounded inputs
\* ------------------------------------------------------------------------
InitHelper ==
  /\ vnPath \in SeqsUpTo(PathNames, MaxPath)
  /\ vnName \in MethodNames
  /\ vnResult = <<>>
  /\ vnPhase = "input"
  /\ ParserIdle
  /\ OrchestratorIdle
  /\ StringsIdle
  /\ RetryIdle
  /\ MapIdle

ApplyVarName ==
  /\ vnPhase = "input"
  /\ vnResult' = uniqueMethodVarName(vnPath, vnName)
  /\ vnPhase' = "done"
  /\ UNCHANGED <<vnPath, vnName, parserVars, mapVars, fsVars, runVars, stringVars, retryVars>>

NextHelper == ApplyVarName

SpecHelper == InitHelper /\ [][NextHelper]_vars

\* ------------------------------------------------------------------------
\* safeMethodName and toPascalCase applied to the bounded inputs
\* ------------------------------------------------------------------------
StringChars == {"a", "B", ".", "_", "-"}

NamedStrings ==
  { <<"d","e","l","e","t","e">>,
    <<"i","m","p","o","r","t">>,
    <<"e","x","p","o","r","t">>,
    <<"d","e","f","a","u","l","t">>,
    <<"c","l","a","s","s">>,
    <<"f","u","n","c","t","i","o","n">>,
    <<"r","e","t","u","r","n">>,
    <<"D","e","l","e","t","e">>,
    <<"d","e","l","e","t","e","_">>,
    <<"d","e","l","e","t","e","d">>,
    <<"n","e","w">>,
    <<"l","i","s","t">>,
    <<"c","h","a","t",".","p","o","s","t","M","e","s","s","a","g","e">>,
    <<"a","d","m","i","n",".","a","p","p","s","_","a","p","p","r","o","v","e","d",".","l","i","s","t">>,
    <<"a",".","b",".","c">>,
    <<"c","h","a","t","_","p","o","s","t","_","m","e","s","s","a","g","e">>,
    <<"c","h","a","t","-","p","o","s","t","-","m","e","s","s","a","g","e">>,
    <<"p","o","s","t","M","e","s","s","a","g","e">> }

StringInputs == SeqsUpTo(StringChars, MaxStr) \cup NamedStrings

InitStrings ==
  /\ sInput \in StringInputs
  /\ sSafe = <<>>
  /\ sPascal = <<>>
  /\ sPhase = {}
  /\ ParserIdle
  /\ HelperIdle
  /\ OrchestratorIdle
  /\ RetryIdle
  /\ MapIdle

ApplySafeMethodName ==
  /\ "off" \notin sPhase /\ "safe" \notin sPhase
  /\ sSafe' = safeMethodName(sInput)
  /\ sPhase' = sPhase \cup {"safe"}
  /\ UNCHANGED <<sInput, sPascal, parserVars, helperVars, mapVars, fsVars, runVars, retryVars>>

ApplyToPascalCase ==
  /\ "off" \notin sPhase /\ "pascal" \notin sPhase
  /\ sPascal' = toPascalCase(sInput)
  /\ sPhase' = sPhase \cup {"pascal"}
  /\ UNCHANGED <<sInput, sSafe, parserVars, helperVars, mapVars, fsVars, runVars, retryVars>>

NextStrings == ApplySafeMethodName \/ ApplyToPascalCase

SpecStrings == InitStrings /\ [][NextStrings]_vars

\* ------------------------------------------------------------------------
\* Errors.ts: the seven tagged errors of SlackError
\* ------------------------------------------------------------------------
SlackError(tag, statusCode, error, retryAfter) ==
  [kind |-> "failure", tag |-> tag, statusCode |-> statusCode, error |-> error,
   retryAfter |-> retryAfter]

SlackRequestError == SlackError("SlackRequestError", 0, "", 0)
SlackHttpError(statusCode) == SlackError("SlackHttpError", statusCode, "", 0)
SlackPlatformError(error) == SlackError("SlackPlatformError", 0, error, 0)
SlackRateLimitedError(retryAfter) == SlackError("SlackRateLimitedError", 0, "", retryAfter)
SlackFileUploadInvalidArgumentsError ==
  SlackError("SlackFileUploadInvalidArgumentsError", 0, "", 0)
SlackFileUploadReadError == SlackError("SlackFileUploadReadError", 0, "", 0)
SlackUnknownError == SlackError("SlackUnknownError", 0, "", 0)

\* get isAuthError of SlackPlatformError
isAuthError(e) ==
  \/ e.error = "invalid_auth"
  \/ e.error = "not_authed"
  \/ e.error = "token_revoked"
  \/ e.error = "token_expired"
  \/ e.error = "account_inactive"

StatusCodes == {400, 429, 499, 500, 503}
PlatformCodes ==
  {"service_unavailable", "internal_error", "invalid_auth", "not_authed",
   "token_revoked", "token_expired", "account_inactive", "channel_not_found"}
RetryAfters == {1, 30}

\* the errors an attempt of the wrapped effect can fail with
SlackErrors ==
  { SlackRequestError, SlackFileUploadInvalidArgumentsError, SlackFileUploadReadError,
    SlackUnknownError }
  \cup { SlackHttpError(c) : c \in StatusCodes }
  \cup { SlackPlatformError(c) : c \in PlatformCodes }
  \cup { SlackRateLimitedError(r) : r \in RetryAfters }

Success == [kind |-> "success", tag |-> "", statusCode |-> 0, error |-> "", retryAfter |-> 0]

\* ------------------------------------------------------------------------
\* Retry.ts
\* ------------------------------------------------------------------------
\* the table of the README: of the platform errors only service_unavailable
isRetryableError_readme(error) ==
  CASE error.tag = "SlackRateLimitedError" -> TRUE
    [] error.tag = "SlackRequestError" -> TRUE
    [] error.tag = "SlackHttpError" -> error.statusCode >= 500
    [] error.tag = "SlackPlatformError" -> error.error = "service_unavailable"
    [] OTHER -> FALSE

isRetryableError(error) ==
  CASE error.tag = "SlackRateLimitedError" -> TRUE
    [] error.tag = "SlackRequestError" -> TRUE
    [] error.tag = "SlackHttpError" -> error.statusCode >= 500
    [] error.tag = "SlackPlatformError" ->
         IF isAuthError(error) THEN FALSE
         ELSE error.error = "service_unavailable" \/ error.error = "internal_error"
    [] error.tag \in {"SlackFileUploadInvalidArgumentsError", "SlackFileUploadReadError",
                      "SlackUnknownError"} -> FALSE

\* Schedule.recurs(10) of tenRetriesInAboutThirtyMinutes
tenRetries == 10

\* options?.maxRetries ?? 5 of withRateLimitOnlyRetry
defaultMaxRetries == 5

\* the options argument: absent, without maxRetries, or with a bounded maxRetries
RetryOptions ==
  { Undefined, Defined(Undefined) }
  \cup { Defined(Defined(n)) : n \in 0..MaxRetriesOption }

\* options?.maxRetries ?? 10 of rateLimitAwareSchedule
awareMaxRetries == 10

\* "1 second", the base of Schedule.exponential, in milliseconds
oneSecond == 1000

\* the baseDelay option of rateLimitAwareSchedule: absent or "500 millis"
BaseDelays == {oneSecond, 500}

RetryPolicies == {"withDefaultRetry", "withRateLimitRetry", "withRateLimitOnlyRetry"}

\* the number of retries the wrapper's schedule allows
retryTimes(policy, options) ==
  IF policy = "withDefaultRetry" THEN tenRetries
  ELSE IF options.defined /\ options.value.defined THEN options.value.value
       ELSE IF policy = "withRateLimitRetry" THEN awareMaxRetries
            ELSE defaultMaxRetries

\* while: (error) => error._tag === "SlackRateLimitedError"
whileRateLimited_retryable(error) == isRetryableError(error)

whileRateLimited(error) == error.tag = "SlackRateLimitedError"

\* Schedule.whileInput(isRetryableError) / the while option
whileInput(policy, error) ==
  IF policy \in {"withDefaultRetry", "withRateLimitRetry"} THEN isRetryableError(error)
  ELSE whileRateLimited(error)

\* the factors Schedule.jittered draws from (it scales the delay by a random
\* factor between 80% and 120%), in percent
JitterPercents == {80, 100, 120}

\* Schedule.exponential(base, 2): base * 2^n before recurrence n + 1
exponential(base, n) == base * 2^n

\* the delay the schedule puts before the next attempt; the error is the
\* schedule's input, which only whileInput reads
scheduleDelay(policy, base, retriesDone, error, jitter) ==
  IF policy = "withRateLimitOnlyRetry" THEN 0
  ELSE (exponential(base, retriesDone) * jitter) \div 100

\* Schedule.recurs(n) / the times option: n recurrences after the first run
recurs_oneMore(retriesDone, n) == retriesDone <= n

recurs(retriesDone, n) == retriesDone < n

InitRetry ==
  /\ rPolicy \in RetryPolicies
  /\ rOptions \in (IF rPolicy = "withDefaultRetry" THEN {Undefined} ELSE RetryOptions)
  /\ rTimes = retryTimes(rPolicy, rOptions)
  /\ rAttempts = 0
  /\ rLast = NoResult
  /\ rWhile = FALSE
  /\ rRetriedOn = {}
  /\ rBaseDelay \in (IF rPolicy = "withRateLimitRetry" /\ rOptions.defined THEN BaseDelays
                     ELSE IF rPolicy = "withRateLimitOnlyRetry" THEN {0}
                     ELSE {oneSecond})
  /\ rDelay = 0
  /\ rStatus = "running"
  /\ rOutcome = NoResult
  /\ ParserIdle
  /\ HelperIdle
  /\ OrchestratorIdle
  /\ StringsIdle
  /\ MapIdle

\* one attempt of the wrapped effect that succeeds: Effect.retry returns it
AttemptSucceeds ==
  /\ rStatus = "running"
  /\ rAttempts' = rAttempts + 1
  /\ rLast' = Success
  /\ rWhile' = FALSE
  /\ rStatus' = "done"
  /\ rOutcome' = Success
  /\ rDelay' = 0
  /\ UNCHANGED <<rPolicy, rOptions, rTimes, rRetriedOn, rBaseDelay,
                 parserVars, helperVars, mapVars, fsVars, runVars, stringVars>>

\* one attempt that fails: Effect.retry steps the schedule with the error and
\* either runs the effect again or fails with that error
AttemptFails ==
  /\ rStatus = "running"
  /\ \E e \in SlackErrors :
       LET again == whileInput(rPolicy, e) /\ recurs(rAttempts, rTimes)
       IN /\ rAttempts' = rAttempts + 1
          /\ rLast' = e
          /\ rWhile' = whileInput(rPolicy, e)
          /\ rRetriedOn' = IF again THEN rRetriedOn \cup {e} ELSE rRetriedOn
          /\ rStatus' = IF again THEN "running" ELSE "done"
          /\ rOutcome' = IF again THEN NoResult ELSE e
          /\ \E jitter \in (IF again THEN JitterPercents ELSE {100}) :
               rDelay' = IF again
                         THEN scheduleDelay(rPolicy, rBaseDelay, rAttempts, e, jitter)
                         ELSE 0
  /\ UNCHANGED <<rPolicy, rOptions, rTimes, rBaseDelay,
                 parserVars, helperVars, mapVars, fsVars, runVars, stringVars>>

NextRetry == AttemptSucceeds \/ AttemptFails

SpecRetry == InitRetry /\ [][NextRetry]_vars

\* the runtime runs the next attempt once the schedule's delay has passed
SpecRetryFair == SpecRetry /\ WF_vars(NextRetry)

\* ------------------------------------------------------------------------
\* internal/errors.ts: mapSlackError
\* ------------------------------------------------------------------------
\* the values of ErrorCode of @slack/web-api, as Errors.ts lists them
ErrorCodeRequestError == "slack_webapi_request_error"
ErrorCodeHTTPError == "slack_webapi_http_error"
ErrorCodePlatformError == "slack_webapi_platform_error"
ErrorCodeRateLimitedError == "slack_webapi_rate_limited_error"
ErrorCodeFileUploadInvalidArgumentsError == "slack_webapi_file_upload_invalid_args_error"
ErrorCodeFileUploadReadFileDataError == "slack_webapi_file_upload_read_file_data_error"

ErrorCodes ==
  { ErrorCodeRequestError, ErrorCodeHTTPError, ErrorCodePlatformError,
    ErrorCodeRateLimitedError, ErrorCodeFileUploadInvalidArgumentsError,
    ErrorCodeFileUploadReadFileDataError }

\* the code property of a thrown value: a string or something else
CodeValue(isString, text) == [isString |-> isString, text |-> text]

\* a thrown value: whether it is an Error, and the optional properties
\* mapSlackError reads (data is absent, or present with an optional error)
Thrown(isError, code, statusCode, data, retryAfter) ==
  [isError |-> isError, code |-> code, statusCode |-> statusCode, data |-> data,
   retryAfter |-> retryAfter]

ThrownValues ==
  { Thrown(isError, code, statusCode, data, retryAfter) :
      isError \in BOOLEAN,
      code \in {Undefined, Defined(CodeValue(FALSE, "42"))}
               \cup { Defined(CodeValue(TRUE, c)) : c \in ErrorCodes \cup {"ENOTFOUND"} },
      statusCode \in {Undefined, Defined(404), Defined(500)},
      data \in {Undefined, Defined(Undefined), Defined(Defined("channel_not_found")),
                Defined(Defined("invalid_auth"))},
      retryAfter \in {Undefined, Defined(0), Defined(30)} }

\* error instanceof Error && "code" in error && typeof error.code === "string"
isSlackSdkError_anyObject(error) == error.code.defined /\ error.code.value.isString

isSlackSdkError(error) ==
  error.isError /\ error.code.defined /\ error.code.value.isString

\* value ?? fallback
orElse(value, fallback) == IF value.defined THEN value.value ELSE fallback

mapSlackError(error) ==
  IF ~isSlackSdkError(error) THEN SlackUnknownError
  ELSE
    LET code == error.code.value.text
    IN CASE code = ErrorCodeRequestError -> SlackRequestError
         [] code = ErrorCodeHTTPError -> SlackHttpError(orElse(error.statusCode, 0))
         [] code = ErrorCodePlatformError ->
              SlackPlatformError(
                orElse(IF error.data.defined THEN error.data.value ELSE Undefined,
                       "unknown_error"))
         [] code = ErrorCodeRateLimitedError ->
              SlackRateLimitedError(orElse(error.retryAfter, 60))
         [] code = ErrorCodeFileUploadInvalidArgumentsError ->
              SlackFileUploadInvalidArgumentsError
         [] code = ErrorCodeFileUploadReadFileDataError -> SlackFileUploadReadError
         [] OTHER -> SlackUnknownError

InitMapError ==
  /\ mThrown \in ThrownValues
  /\ mResult = NoResult
  /\ mPhase = "input"
  /\ ParserIdle
  /\ HelperIdle
  /\ OrchestratorIdle
  /\ StringsIdle
  /\ RetryIdle

\* catch: mapSlackError of Effect.tryPromise
ApplyMapSlackError ==
  /\ mPhase = "input"
  /\ mResult' = mapSlackError(mThrown)
  /\ mPhase' = "done"
  /\ UNCHANGED <<mThrown, parserVars, helperVars, fsVars, runVars, stringVars, retryVars>>

NextMapError == ApplyMapSlackError

SpecMapError == InitMapError /\ [][NextMapError]_vars

\* ------------------------------------------------------------------------
\* generator.ts and errors.ts: the input texts of the orchestrator
\* ------------------------------------------------------------------------
TextNoClass == "export declare class SomethingElse { foo: string; }"
TextEmpty == "export declare class Methods { }"
TextChat == "export declare class Methods { apiCall: any; filesUploadV2: any; chat: { post: MethodWithRequiredArgument<A, B>; sched: { list: MethodWithOptionalArgument<C, D>; }; }; }"
TextChatUsers == "export declare class Methods { chat: { post: MethodWithRequiredArgument<A, B>; }; users: { list: MethodWithOptionalArgument<C, D>; }; }"

Texts == { TextNoClass, TextEmpty, TextChat, TextChatUsers }

ChatName == <<"c","h","a","t">>
UsersName == <<"u","s","e","r","s">>
PostName == <<"p","o","s","t">>
ListName == <<"l","i","s","t">>
SchedName == <<"s","c","h","e","d">>

PostMember == PropertySignature(PostName,
                TypeReference(<<RequiredMarker>>, << <<"A">>, <<"B">> >>))
ListMember == PropertySignature(ListName,
                TypeReference(<<OptionalMarker>>, << <<"C">>, <<"D">> >>))

\* ts.createSourceFile on the input texts
createSourceFile(text) ==
  CASE text = TextNoClass ->
         SourceFile(<<ClassDeclaration("SomethingElse",
                        <<PropertyDeclaration(<<"f","o","o">>, AnyKeyword)>>)>>)
    [] text = TextEmpty ->
         SourceFile(<<ClassDeclaration("Methods", <<>>)>>)
    [] text = TextChat ->
         SourceFile(<<ClassDeclaration("Methods",
           <<PropertyDeclaration(apiCallName, AnyKeyword),
             PropertyDeclaration(filesUploadV2Name, AnyKeyword),
             PropertyDeclaration(ChatName,
               TypeLiteral(<<PostMember,
                             PropertySignature(SchedName, TypeLiteral(<<ListMember>>))>>))>>)>>)
    [] text = TextChatUsers ->
         SourceFile(<<ClassDeclaration("Methods",
           <<PropertyDeclaration(ChatName, TypeLiteral(<<PostMember>>)),
             PropertyDeclaration(UsersName, TypeLiteral(<<ListMember>>))>>)>>)

\* crypto.createHash("sha256").update(content).digest("hex") on the input texts
computeHash(content) ==
  CASE content = TextNoClass ->
         "d605c2866d2d539550c3fa0ef2d37fbbca4000e1935678ac1a5cb4998004a5f1"
    [] content = TextEmpty ->
         "dd9c92a2918025d36d57d5f2200bb0a2648dd500a4c54c5ffa82870f8d738c6b"
    [] content = TextChat ->
         "cf56a8b39c401a819ee86cc521d95a542e8a45b15dfc7a1db26798b52418d6d2"
    [] content = TextChatUsers ->
         "b599091782bf2c33671e561a13a69e20335b3716f959548b08beb0138ca0c5a6"

\* createConfig
MethodsFilePath == <<"node_modules/@slack/web-api/dist/methods.d.ts">>
PackageJsonPath == <<"node_modules/@slack/web-api/package.json">>
GeneratedDir == <<"src/generated">>
MetadataFilePath == GeneratedDir \o <<"/", "_metadata.json">>

\* path.join(config.generatedDir, file.filename)
pathJoin(dir, filename) == dir \o <<"/">> \o filename

\* the ten classes of errors.ts
GeneratorErrorTags ==
  { "MethodsFileNotFoundError", "MethodsFileReadError", "PackageJsonNotFoundError",
    "PackageJsonReadError", "GeneratedDirCreateError", "WriteFileError",
    "MethodsClassNotFoundError", "MetadataNotFoundError", "MetadataReadError",
    "GeneratedCodeOutOfDateError" }

\* Effect.fail of a tagged error that carries a path
Fail(tag, path) == [NoOutcome EXCEPT !.kind = "failure", !.tag = tag, !.path = path]

\* an exception thrown inside Effect.gen: a defect, which Effect.mapError leaves alone
Die(name) == [NoOutcome EXCEPT !.kind = "defect", !.tag = name]

GeneratedCodeOutOfDateError_swapped(expectedHash, currentHash) ==
  [NoOutcome EXCEPT !.kind = "failure", !.tag = "GeneratedCodeOutOfDateError",
                    !.expectedHash = currentHash, !.currentHash = expectedHash]

GeneratedCodeOutOfDateError(expectedHash, currentHash) ==
  [NoOutcome EXCEPT !.kind = "failure", !.tag = "GeneratedCodeOutOfDateError",
                    !.expectedHash = expectedHash, !.currentHash = currentHash]

Succeed_swapped(nsCount, mCount, version) ==
  [NoOutcome EXCEPT !.kind = "success", !.namespaceCount = mCount,
                    !.methodCount = nsCount, !.slackVersion = version]

Succeed(nsCount, mCount, version) ==
  [NoOutcome EXCEPT !.kind = "success", !.namespaceCount = nsCount,
                    !.methodCount = mCount, !.slackVersion = version]

\* ------------------------------------------------------------------------
\* The file system the orchestrator starts from
\* ------------------------------------------------------------------------
Timestamps == 1..MaxClock

SlackVersions == { "7.9.1" }

MethodsFileStates == { Missing(""), Unreadable("") } \cup { Present(t) : t \in Texts }

NotJson == NoContent

PackageJsonStates ==
  { Missing(NoContent), Unreadable(NoContent), Present(NotJson) }
  \cup { Present([NoContent EXCEPT !.json = TRUE, !.slackWebApiVersion = v]) :
           v \in SlackVersions }

Metadata(generatedAt, version, hash, count) ==
  [json |-> TRUE, generatedAt |-> generatedAt, slackWebApiVersion |-> version,
   methodsFileHash |-> hash, methodCount |-> count]

InitialMetadataStates ==
  { Missing(NoContent), Unreadable(NoContent), Present(NotJson) }
  \cup { Present(Metadata(1, "7.9.0", computeHash(t), 0)) : t \in Texts }

InitOrchestrator ==
  /\ methodsFile \in MethodsFileStates
  /\ packageJson \in PackageJsonStates
  /\ dirExists \in BOOLEAN
  /\ metadataFile \in (IF dirExists THEN InitialMetadataStates ELSE { Missing(NoContent) })
  /\ genFiles = <<>>
  /\ RunIdle
  /\ ParserIdle
  /\ HelperIdle
  /\ StringsIdle
  /\ RetryIdle
  /\ MapIdle

\* ------------------------------------------------------------------------
\* The program: bun scripts/generate-services.ts [--check]
\* ------------------------------------------------------------------------
\* const program = isCheck ? check(config) : generate(config)
Start ==
  /\ pc = "idle"
  /\ \E m \in {"generate", "check"} :
       /\ mode' = m
       /\ pc' = IF m = "generate" THEN "g_readVersion" ELSE "c_readFile"
  /\ UNCHANGED <<localVars, outcome, writeLog, parserCalls, fsVars, parserVars, helperVars, mapVars, stringVars, retryVars>>

Finish(result) ==
  /\ pc' = "done"
  /\ outcome' = result

\* generate: readSlackVersion(config.rootDir)
GenReadVersion ==
  /\ pc = "g_readVersion"
  /\ IF packageJson.status # "ok"
     THEN Finish(Fail("PackageJsonNotFoundError", PackageJsonPath))
          /\ UNCHANGED slackVersion
     ELSE IF ~packageJson.content.json
          THEN Finish(Die("SyntaxError")) /\ UNCHANGED slackVersion
          ELSE /\ slackVersion' = packageJson.content.slackWebApiVersion
               /\ pc' = "g_readFile"
               /\ UNCHANGED outcome
  /\ UNCHANGED <<mode, methodsContent, namespaces, methodsHash, files, idx,
                 existingMetadata, writeLog, parserCalls, fsVars, parserVars, helperVars, mapVars, stringVars, retryVars>>

\* a generate that makes the output directory before it reads the declaration
GenReadFile_creatingDir ==
  /\ pc = "g_readFile"
  /\ dirExists' = TRUE
  /\ IF methodsFile.status # "ok"
     THEN Finish(Fail("MethodsFileNotFoundError", MethodsFilePath))
          /\ UNCHANGED methodsContent
     ELSE /\ methodsContent' = methodsFile.content
          /\ pc' = "g_parse"
          /\ UNCHANGED outcome
  /\ UNCHANGED <<mode, slackVersion, namespaces, methodsHash, files, idx,
                 existingMetadata, writeLog, parserCalls, methodsFile, packageJson,
                 metadataFile, genFiles, parserVars, helperVars, mapVars, stringVars,
                 retryVars>>

\* generate: readFile(config.methodsFilePath)
GenReadFile ==
  /\ pc = "g_readFile"
  /\ IF methodsFile.status # "ok"
     THEN Finish(Fail("MethodsFileNotFoundError", MethodsFilePath))
          /\ UNCHANGED methodsContent
     ELSE /\ methodsContent' = methodsFile.content
          /\ pc' = "g_parse"
          /\ UNCHANGED outcome
  /\ UNCHANGED <<mode, slackVersion, namespaces, methodsHash, files, idx,
                 existingMetadata, writeLog, parserCalls, fsVars, parserVars, helperVars, mapVars, stringVars, retryVars>>

\* generate: parseNamespaces, countMethods, computeHash, generateAllFiles
GenParse ==
  /\ pc = "g_parse"
  /\ parserCalls' = parserCalls + 1
  /\ LET result == parseMethodsSource(createSourceFile(methodsContent))
     IN IF result.either = "Left"
        THEN Finish(Fail(result.tag, <<>>))
             /\ UNCHANGED <<namespaces, methodsHash, files>>
        ELSE /\ namespaces' = result.right
             /\ methodsHash' = computeHash(methodsContent)
             /\ files' = generateAllFiles(result.right)
             /\ pc' = "g_ensureDir"
             /\ UNCHANGED outcome
  /\ UNCHANGED <<mode, slackVersion, methodsContent, idx, existingMetadata,
                 writeLog, fsVars, parserVars, helperVars, mapVars, stringVars, retryVars>>

\* generate: ensureDir(config.generatedDir); makeDirectory may fail
GenEnsureDir ==
  /\ pc = "g_ensureDir"
  /\ \E ok \in BOOLEAN :
       IF ok
       THEN /\ dirExists' = TRUE
            /\ idx' = 1
            /\ pc' = "g_write"
            /\ UNCHANGED outcome
       ELSE /\ Finish(Fail("WriteFileError", GeneratedDir))
            /\ UNCHANGED <<dirExists, idx>>
  /\ UNCHANGED <<mode, slackVersion, methodsContent, namespaces, methodsHash, files,
                 existingMetadata, writeLog, parserCalls, methodsFile, packageJson,
                 metadataFile, genFiles, parserVars, helperVars, mapVars, stringVars, retryVars>>

\* where the for loop over files goes after writeFile returned
afterWrite_bestEffort(ok, i, n) == IF i < n THEN "g_write" ELSE "g_writeMeta"

afterWrite(ok, i, n) ==
  IF ~ok THEN "done" ELSE IF i < n THEN "g_write" ELSE "g_writeMeta"

\* fs.writeFileString into the output directory
writeInto(dir, filename, content) ==
  [f \in DOMAIN dir \cup {filename} |-> IF f = filename THEN content ELSE dir[f]]

\* generate: one round of the for loop, writeFile(filePath, file.content)
GenWriteFile ==
  /\ pc = "g_write"
  /\ \E ok \in BOOLEAN :
       LET file == files[idx]
           filePath == pathJoin(GeneratedDir, file.filename)
       IN /\ writeLog' = Append(writeLog, [path |-> filePath, ok |-> ok])
          /\ genFiles' = IF ok THEN writeInto(genFiles, file.filename, file.content)
                         ELSE genFiles
          /\ pc' = afterWrite(ok, idx, Len(files))
          /\ outcome' = IF ok THEN outcome ELSE Fail("WriteFileError", filePath)
          /\ idx' = IF ok THEN idx + 1 ELSE idx
  /\ UNCHANGED <<mode, slackVersion, methodsContent, namespaces, methodsHash, files,
                 existingMetadata, parserCalls, methodsFile, packageJson,
                 metadataFile, dirExists, parserVars, helperVars, mapVars, stringVars, retryVars>>

\* generate: writeFile(config.metadataFilePath, JSON.stringify(metadata)) and return
GenWriteMetadata ==
  /\ pc = "g_writeMeta"
  /\ \E ok \in BOOLEAN, now \in Timestamps :
       /\ writeLog' = Append(writeLog, [path |-> MetadataFilePath, ok |-> ok])
       /\ IF ok
          THEN /\ metadataFile' = Present(Metadata(now, slackVersion, methodsHash,
                                                   countMethods(namespaces)))
               /\ Finish(Succeed(Len(namespaces), countMethods(namespaces), slackVersion))
          ELSE /\ Finish(Fail("WriteFileError", MetadataFilePath))
               /\ UNCHANGED metadataFile
  /\ UNCHANGED <<mode, localVars, parserCalls, methodsFile, packageJson, dirExists,
                 genFiles, parserVars, helperVars, mapVars, stringVars, retryVars>>

\* check: readFile(config.methodsFilePath) and computeHash
CheckReadFile ==
  /\ pc = "c_readFile"
  /\ IF methodsFile.status # "ok"
     THEN Finish(Fail("MethodsFileNotFoundError", MethodsFilePath))
          /\ UNCHANGED <<methodsContent, methodsHash>>
     ELSE /\ methodsContent' = methodsFile.content
          /\ methodsHash' = computeHash(methodsFile.content)
          /\ pc' = "c_readMeta"
          /\ UNCHANGED outcome
  /\ UNCHANGED <<mode, slackVersion, namespaces, files, idx, existingMetadata,
                 writeLog, parserCalls, fsVars, parserVars, helperVars, mapVars, stringVars, retryVars>>

\* check: readMetadata(config.metadataFilePath)
CheckReadMetadata ==
  /\ pc = "c_readMeta"
  /\ IF metadataFile.status # "ok"
     THEN Finish(Fail("MetadataNotFoundError", MetadataFilePath))
          /\ UNCHANGED existingMetadata
     ELSE IF ~metadataFile.content.json
          THEN Finish(Die("SyntaxError")) /\ UNCHANGED existingMetadata
          ELSE /\ existingMetadata' = metadataFile.content
               /\ pc' = "c_compare"
               /\ UNCHANGED outcome
  /\ UNCHANGED <<mode, slackVersion, methodsContent, namespaces, methodsHash, files,
                 idx, writeLog, parserCalls, fsVars, parserVars, helperVars, mapVars, stringVars, retryVars>>

\* a check that parses the declaration again and rewrites the record
CheckCompare_regenerating ==
  /\ pc = "c_compare"
  /\ parserCalls' = parserCalls + 1
  /\ metadataFile' = Present([existingMetadata EXCEPT !.methodsFileHash = methodsHash])
  /\ Finish(Succeed(0, 0, ""))
  /\ UNCHANGED <<mode, localVars, writeLog, methodsFile, packageJson, dirExists,
                 genFiles, parserVars, helperVars, mapVars, stringVars, retryVars>>

\* check: compare the stored hash with the current one
CheckCompare ==
  /\ pc = "c_compare"
  /\ IF existingMetadata.methodsFileHash # methodsHash
     THEN Finish(GeneratedCodeOutOfDateError(existingMetadata.methodsFileHash, methodsHash))
     ELSE Finish(Succeed(0, 0, ""))
  /\ UNCHANGED <<mode, localVars, writeLog, parserCalls, fsVars, parserVars, helperVars, mapVars, stringVars, retryVars>>

\* NodeRuntime.runMain returns: the process exits
Exit ==
  /\ pc = "done"
  /\ pc' = "idle"
  /\ mode' = "none"
  /\ slackVersion' = ""
  /\ methodsContent' = ""
  /\ namespaces' = <<>>
  /\ methodsHash' = ""
  /\ files' = <<>>
  /\ idx' = 0
  /\ existingMetadata' = NoContent
  /\ outcome' = NoOutcome
  /\ writeLog' = <<>>
  /\ parserCalls' = 0
  /\ UNCHANGED <<fsVars, parserVars, helperVars, mapVars, stringVars, retryVars>>

\* between two runs the installed declaration file changes
ChangeInput ==
  /\ pc = "idle"
  /\ methodsFile' \in MethodsFileStates \ {methodsFile}
  /\ UNCHANGED <<packageJson, metadataFile, dirExists, genFiles, runVars,
                 parserVars, helperVars, mapVars, stringVars, retryVars>>

Next ==
  \/ Start
  \/ GenReadVersion
  \/ GenReadFile
  \/ GenParse
  \/ GenEnsureDir
  \/ GenWriteFile
  \/ GenWriteMetadata
  \/ CheckReadFile
  \/ CheckReadMetadata
  \/ CheckCompare
  \/ Exit
  \/ ChangeInput

Init == InitOrchestrator

Spec == Init /\ [][Next]_vars

\* ------------------------------------------------------------------------
\* Properties of the orchestrator
\* ------------------------------------------------------------------------
BothReadsSucceed ==
  /\ methodsFile.status = "ok"
  /\ metadataFile.status = "ok"
  /\ metadataFile.content.json

\* C1: check succeeds exactly when the stored methodsFileHash equals the hash
\* of the input's current text; on a mismatch it fails with
\* GeneratedCodeOutOfDateError carrying the stored hash as expectedHash and the
\* fresh hash as currentHash.
C1_CheckSucceedsIffHashesEqual ==
  pc = "done" /\ mode = "check" /\ BothReadsSucceed =>
    LET stored == metadataFile.content.methodsFileHash
        current == computeHash(methodsFile.content)
    IN /\ (outcome.kind = "success") <=> (stored = current)
       /\ stored # current =>
            outcome = [NoOutcome EXCEPT !.kind = "failure",
                                        !.tag = "GeneratedCodeOutOfDateError",
                                        !.expectedHash = stored,
                                        !.currentHash = current]

\* C1 witness: a record written by generate is found stale after the input changed
C1_Witness ==
  /\ pc = "done" /\ mode = "check"
  /\ outcome.tag = "GeneratedCodeOutOfDateError"
  /\ metadataFile.content.slackWebApiVersion \in SlackVersions
  /\ outcome.expectedHash = computeHash(TextChat)
  /\ outcome.currentHash = computeHash(TextChatUsers)

\* C2: in a generate run the metadata is written only after every generated
\* file was written successfully; a failed write is the last write of the run
\* and the run ends with WriteFileError for that path.
C2_MetadataAfterAllFilesFailFast ==
  mode = "generate" =>
    /\ \A k \in DOMAIN writeLog :
         /\ ~writeLog[k].ok =>
              /\ k = Len(writeLog)
              /\ pc = "done"
              /\ outcome = Fail("WriteFileError", writeLog[k].path)
         /\ writeLog[k].path = MetadataFilePath =>
              /\ k = Len(files) + 1
              /\ \A i \in 1..Len(files) :
                   writeLog[i] = [path |-> pathJoin(GeneratedDir, files[i].filename),
                                  ok |-> TRUE]
    /\ outcome.kind = "success" =>
         /\ Len(writeLog) = Len(files) + 1
         /\ \A k \in DOMAIN writeLog : writeLog[k].ok

\* C2 witness: the second of three files fails; nothing is written after it
C2_Witness ==
  /\ pc = "done" /\ mode = "generate"
  /\ Len(files) = 3
  /\ Len(writeLog) = 2
  /\ writeLog[1].ok /\ ~writeLog[2].ok
  /\ outcome.tag = "WriteFileError"

InCheck == mode = "check" /\ pc \in {"c_readFile", "c_readMeta", "c_compare", "done"}

\* C3: no step of check writes to the file system or calls the parser, and its
\* outcome is decided by the two reads and the two hashes alone, also for a
\* text without a Methods class.
C3_CheckWritesNothingParsesNothing ==
  /\ [][InCheck => fsVars' = fsVars /\ parserCalls' = parserCalls /\ writeLog' = writeLog]_vars
  /\ [](pc = "done" /\ mode = "check" =>
          /\ parserCalls = 0
          /\ writeLog = <<>>
          /\ (outcome.kind = "success") <=>
               /\ BothReadsSucceed
               /\ metadataFile.content.methodsFileHash = computeHash(methodsFile.content)
          /\ methodsFile.status # "ok" => outcome.tag = "MethodsFileNotFoundError"
          /\ methodsFile.status = "ok" /\ metadataFile.status # "ok" =>
               outcome.tag = "MetadataNotFoundError")

\* C3 witness: check succeeded on a text that has no Methods class
C3_Witness ==
  /\ pc = "done" /\ mode = "check"
  /\ outcome.kind = "success"
  /\ methodsFile = Present(TextNoClass)

\* C4: a failing run of generate or check fails with one of the ten tagged
\* GeneratorError kinds; no untyped error or defect escapes.
C4_OnlyTaggedGeneratorErrors ==
  pc = "done" /\ outcome.kind # "success" =>
    outcome.kind = "failure" /\ outcome.tag \in GeneratorErrorTags

\* ------------------------------------------------------------------------
\* Properties of the parser and the renderer
\* ------------------------------------------------------------------------
RECURSIVE ContainsMethodsClass(_)
\* a class declaration named exactly Methods somewhere in the tree below node
ContainsMethodsClass(node) ==
  \/ node.kind = "ClassDeclaration" /\ node.name = "Methods"
  \/ \E i \in DOMAIN node.children : ContainsMethodsClass(node.children[i])

RECURSIVE CountClassDeclarations(_)
RECURSIVE CountClassDeclarationsSeq(_)
CountClassDeclarations(node) ==
  (IF node.kind = "ClassDeclaration" THEN 1 ELSE 0) + CountClassDeclarationsSeq(node.children)
CountClassDeclarationsSeq(nodes) ==
  IF nodes = <<>> THEN 0
  ELSE CountClassDeclarations(nodes[1]) + CountClassDeclarationsSeq(Tail(nodes))

\* C5: parseMethodsSource fails with MethodsClassNotFoundError exactly when the
\* source has no class declaration named Methods anywhere in its tree; otherwise
\* it succeeds, with the empty list for a single Methods class without members.
C5_NotFoundIffNoMethodsClass ==
  pPhase \in {"parsed", "rendered"} =>
    /\ pParsed.either \in {"Left", "Right"}
    /\ (pParsed.either = "Left") <=> ~ContainsMethodsClass(pSource)
    /\ pParsed.either = "Left" => pParsed.tag = "MethodsClassNotFoundError"
    /\ pSource = SourceFile(<<ClassDeclaration("Methods", <<>>)>>) =>
         pParsed = Right(<<>>)

\* C5 witness: the failure is returned for a source that declares classes,
\* none of them named Methods
C5_Witness ==
  /\ pPhase = "parsed"
  /\ pParsed.either = "Left"
  /\ CountClassDeclarations(pSource) >= 2

\* C6: generateAllFiles returns one file per namespace, named
\* toPascalCase(name) + "Service.ts" in input order, then index.ts last; for
\* no namespace the only file is the index with no export line.
C6_FilesPerNamespacePlusIndex ==
  pPhase = "rendered" =>
    LET nss == pParsed.right
        N == Len(nss)
    IN /\ Len(pFiles) = N + 1
       /\ \A i \in 1..N :
            pFiles[i].filename = toPascalCase(nss[i].name) \o ServiceSuffix \o TsExt
       /\ pFiles[N + 1].filename = IndexFilename
       /\ pFiles[N + 1].content.kind = "index"
       /\ Len(pFiles[N + 1].content.exports) = N
       /\ N = 0 => pFiles = <<[filename |-> IndexFilename,
                               content |-> generateIndexFile(<<>>)]>>
                   /\ pFiles[1].content.exports = <<>>

\* C6 witness: two namespaces rendered, one whose name holds a separator
C6_Witness ==
  /\ pPhase = "rendered"
  /\ Len(pParsed.right) = 2
  /\ Len(pFiles) = 3
  /\ \E i \in 1..2 : pParsed.right[i].name = <<"a","_","b">>

RECURSIVE ApiPathsFollowChain(_, _)
\* every method below ns has apiPath = chain of ancestor names, ".", own name
ApiPathsFollowChain(ns, ancestors) ==
  LET chain == Append(ancestors, ns.name)
  IN /\ \A i \in DOMAIN ns.methods :
          ns.methods[i].apiPath = Join(chain, <<".">>) \o <<".">> \o ns.methods[i].name
     /\ \A j \in DOMAIN ns.subNamespaces : ApiPathsFollowChain(ns.subNamespaces[j], chain)

RECURSIVE AllApiPaths(_)
AllApiPaths(ns) ==
  {ns.methods[i].apiPath : i \in DOMAIN ns.methods}
  \cup UNION {AllApiPaths(ns.subNamespaces[j]) : j \in DOMAIN ns.subNamespaces}

RECURSIVE Depth(_)
Depth(ns) ==
  IF ns.subNamespaces = <<>> THEN 1
  ELSE 1 + Depth(ns.subNamespaces[1])

\* C7: every parsed method's apiPath is the dotted chain of its ancestor
\* namespaces followed by its own name, and the slack.method attribute of every
\* rendered wrapper is the apiPath of a method of that namespace, unchanged.
C7_ApiPathIsAncestorChain ==
  /\ pPhase \in {"parsed", "rendered"} /\ pParsed.either = "Right" =>
       \A i \in DOMAIN pParsed.right : ApiPathsFollowChain(pParsed.right[i], <<>>)
  /\ pPhase = "rendered" =>
       \A i \in DOMAIN pParsed.right :
         \A k \in DOMAIN pFiles[i].content.implementations :
           pFiles[i].content.implementations[k].slackMethod \in AllApiPaths(pParsed.right[i])

\* C7 witness: a method two sub-namespaces deep was parsed and rendered
C7_Witness ==
  /\ pPhase = "rendered"
  /\ \E i \in DOMAIN pParsed.right :
       /\ Depth(pParsed.right[i]) >= 3
       /\ <<"n",".","a",".","b",".","a">> \in AllApiPaths(pParsed.right[i])
       /\ Len(pFiles[i].content.implementations) >= 1

IsMethodMember(m) ==
  /\ m.kind = "PropertySignature" /\ m.nameKind = "Identifier"
  /\ m.type.kind = "TypeReference"
  /\ Len(m.type.typeName) >= 1
  /\ m.type.typeName[1] \in {RequiredMarker, OptionalMarker}
  /\ Len(m.type.typeArguments) = 2

RECURSIVE HasMethodBelow(_)
\* a type literal that holds a method, directly or in a nested literal
HasMethodBelow(typeNode) ==
  \E i \in DOMAIN typeNode.members :
    LET m == typeNode.members[i]
    IN \/ IsMethodMember(m)
       \/ /\ m.kind = "PropertySignature" /\ m.nameKind = "Identifier"
          /\ m.type.kind = "TypeLiteral"
          /\ HasMethodBelow(m.type)

IsSubNamespaceMember(m) ==
  /\ m.kind = "PropertySignature" /\ m.nameKind = "Identifier"
  /\ m.type.kind = "TypeLiteral"
  /\ HasMethodBelow(m.type)

NamesOf(items) == [i \in DOMAIN items |-> items[i].name]

RECURSIVE KeepsDeclarationOrder(_, _)
\* ns lists the methods and the kept nested literals of typeNode in the order
\* of typeNode's members, each once, at every depth
KeepsDeclarationOrder(ns, typeNode) ==
  LET declaredSubs == SelectSeq(typeNode.members, IsSubNamespaceMember)
  IN /\ NamesOf(ns.methods) = NamesOf(SelectSeq(typeNode.members, IsMethodMember))
     /\ NamesOf(ns.subNamespaces) = NamesOf(declaredSubs)
     /\ \A j \in DOMAIN ns.subNamespaces :
          j \in DOMAIN declaredSubs
            /\ KeepsDeclarationOrder(ns.subNamespaces[j], declaredSubs[j].type)

IsNamespaceMember(m) ==
  /\ m.kind = "PropertyDeclaration" /\ m.nameKind = "Identifier"
  /\ m.name \notin {apiCallName, filesUploadV2Name}
  /\ m.type.kind = "TypeLiteral"

RECURSIVE DeclaredNamespaceMembers(_)
RECURSIVE DeclaredNamespaceMembersSeq(_)
\* the namespace members of the Methods classes, in source order
DeclaredNamespaceMembers(node) ==
  (IF node.kind = "ClassDeclaration" /\ node.name = "Methods"
   THEN SelectSeq(node.members, IsNamespaceMember) ELSE <<>>)
  \o DeclaredNamespaceMembersSeq(node.children)
DeclaredNamespaceMembersSeq(nodes) ==
  IF nodes = <<>> THEN <<>>
  ELSE DeclaredNamespaceMembers(nodes[1]) \o DeclaredNamespaceMembersSeq(Tail(nodes))

\* C8: the parser returns the top-level namespaces in the order their members
\* are declared, and inside every namespace the methods and the sub-namespaces
\* keep declaration order; nothing is sorted, reordered or duplicated.
C8_DeclarationOrderKept ==
  pPhase \in {"parsed", "rendered"} /\ pParsed.either = "Right" =>
    LET declared == DeclaredNamespaceMembers(pSource)
    IN /\ NamesOf(pParsed.right) = NamesOf(declared)
       /\ \A i \in DOMAIN pParsed.right :
            i \in DOMAIN declared
              /\ KeepsDeclarationOrder(pParsed.right[i], declared[i].type)

\* C8 witness: a namespace with methods b, a declared in that order (not
\* sorted) next to a sub-namespace, and a class with two namespaces
C8_Witness ==
  /\ pPhase = "parsed"
  /\ pParsed.either = "Right"
  /\ \/ /\ Len(pParsed.right) = 1
        /\ NamesOf(pParsed.right[1].methods) = << <<"b">>, <<"a">> >>
        /\ Len(pParsed.right[1].subNamespaces) = 1
     \/ NamesOf(pParsed.right) = << <<"a","_","b">>, <<"a">> >>

NoDuplicates(s) == \A i, j \in DOMAIN s : i # j => s[i] # s[j]

RECURSIVE SiblingsDistinct(_)
\* sibling method names distinct and sibling sub-namespace names distinct
SiblingsDistinct(ns) ==
  /\ NoDuplicates(NamesOf(ns.methods))
  /\ NoDuplicates(NamesOf(ns.subNamespaces))
  /\ \A j \in DOMAIN ns.subNamespaces : SiblingsDistinct(ns.subNamespaces[j])

\* C9: in one generated service file the variable names of all methods of the
\* namespace's sub-tree are pairwise distinct whenever sibling method names
\* and sibling sub-namespace names are distinct.
C9_VarNamesDistinct ==
  pPhase = "rendered" =>
    \A i \in DOMAIN pParsed.right :
      SiblingsDistinct(pParsed.right[i]) =>
        NoDuplicates([k \in DOMAIN pFiles[i].content.implementations |->
                        pFiles[i].content.implementations[k].varName])

\* ------------------------------------------------------------------------
\* Properties of uniqueMethodVarName
\* ------------------------------------------------------------------------
\* C10: uniqueMethodVarName returns safeMethodName(name) for no ancestor and
\* otherwise toPascalCase of each ancestor followed by the safe name with its
\* first character upper-cased.
C10_VarNameIsPascalPrefixPlusSafeName ==
  vnPhase = "done" =>
    vnResult =
      IF vnPath = <<>> THEN safeMethodName(vnName)
      ELSE Concat([i \in DOMAIN vnPath |-> toPascalCase(vnPath[i])])
             \o Capitalize(safeMethodName(vnName))

\* ------------------------------------------------------------------------
\* Properties of the rendered names
\* ------------------------------------------------------------------------
\* the sub-namespace whose result the map keeps under key: the last one set
LastNamed(subs, key) ==
  subs[CHOOSE j \in DOMAIN subs :
         /\ subs[j].name = key
         /\ \A k \in DOMAIN subs : subs[k].name = key => k <= j]

RECURSIVE ExportsMatch(_, _, _)
\* the entries of a returned object against the namespace they render: every
\* method entry is keyed by safeMethodName of the bare name, and at depth 0
\* (directly in the top-level namespace) its variable is that same name
ExportsMatch(parts, ns, depth) ==
  LET M == Len(ns.methods)
  IN /\ Len(parts) >= M
     /\ \A i \in 1..M :
          /\ parts[i].kind \in {"shorthand", "pair"}
          /\ parts[i].key = safeMethodName(ns.methods[i].name)
          /\ depth = 0 => parts[i].kind = "shorthand" /\ parts[i].value = parts[i].key
          /\ parts[i].value # parts[i].key => depth >= 1
     /\ \A i \in (M + 1)..Len(parts) :
          /\ parts[i].kind = "nested"
          /\ \E j \in DOMAIN ns.subNamespaces : ns.subNamespaces[j].name = parts[i].key
          /\ ExportsMatch(parts[i].nested, LastNamed(ns.subNamespaces, parts[i].key),
                          depth + 1)

RECURSIVE HasPair(_)
HasPair(parts) ==
  \E i \in DOMAIN parts : parts[i].kind = "pair" \/ HasPair(parts[i].nested)

\* C11: every rendered method is exported under safeMethodName of its bare
\* name at every depth; a method directly in the top-level namespace has
\* varName = exportName, so the two differ only below a sub-namespace.
C11_ExportNameIsSafeNameVarNameEqualAtTop ==
  pPhase = "rendered" =>
    \A i \in DOMAIN pParsed.right :
      ExportsMatch(pFiles[i].content.returnObj, pParsed.right[i], 0)

\* C11 witness: one rendered namespace holds a direct method and a nested
\* method whose variable differs from its export name
C11_Witness ==
  /\ pPhase = "rendered"
  /\ \E i \in DOMAIN pParsed.right :
       /\ Len(pParsed.right[i].methods) >= 1
       /\ pFiles[i].content.returnObj[1].kind = "shorthand"
       /\ HasPair(pFiles[i].content.returnObj)

\* ------------------------------------------------------------------------
\* Properties of empty namespaces
\* ------------------------------------------------------------------------
IsEmptyNamespace(ns) == Len(ns.methods) = 0 /\ Len(ns.subNamespaces) = 0

RECURSIVE NoEmptyBelow(_)
\* no sub-namespace of ns, at any depth, is empty
NoEmptyBelow(ns) ==
  \A j \in DOMAIN ns.subNamespaces :
    /\ ~IsEmptyNamespace(ns.subNamespaces[j])
    /\ NoEmptyBelow(ns.subNamespaces[j])

\* a type literal with a nested type literal among its members
HasNestedLiteral(typeNode) ==
  \E i \in DOMAIN typeNode.members :
    /\ typeNode.members[i].kind = "PropertySignature"
    /\ typeNode.members[i].nameKind = "Identifier"
    /\ typeNode.members[i].type.kind = "TypeLiteral"

\* C12 as stated: every NamespaceInfo the parser returns, the top-level ones
\* included, has at least one method or at least one sub-namespace.
C12_NoEmptyNamespaceAnywhere ==
  pPhase \in {"parsed", "rendered"} /\ pParsed.either = "Right" =>
    \A i \in DOMAIN pParsed.right :
      /\ ~IsEmptyNamespace(pParsed.right[i])
      /\ NoEmptyBelow(pParsed.right[i])

\* C12 amended: every NamespaceInfo below the top level has at least one
\* method or at least one sub-namespace; a top-level namespace may have none.
C12_NoEmptyNamespaceBelowTop ==
  pPhase \in {"parsed", "rendered"} /\ pParsed.either = "Right" =>
    \A i \in DOMAIN pParsed.right : NoEmptyBelow(pParsed.right[i])

\* C12 witness: a parsed namespace that kept a sub-namespace while a sibling
\* nested literal without methods was left out
C12_Witness ==
  /\ pPhase = "parsed"
  /\ pParsed.either = "Right"
  /\ LET declared == DeclaredNamespaceMembers(pSource)
     IN \E i \in DOMAIN pParsed.right :
          /\ i \in DOMAIN declared
          /\ Len(pParsed.right[i].subNamespaces) = 1
          /\ Len(SelectSeq(declared[i].type.members,
                           LAMBDA m : m.type.kind = "TypeLiteral")) = 2

IsLiteralMember(m) ==
  /\ m.kind = "PropertySignature" /\ m.nameKind = "Identifier"
  /\ m.type.kind = "TypeLiteral"

RECURSIVE DropsExactlyEmptyLiterals(_, _)
\* the sub-namespaces of ns are the nested literals of typeNode that yield a
\* method at some depth, and no other nested literal, at every depth
DropsExactlyEmptyLiterals(ns, typeNode) ==
  LET literals == SelectSeq(typeNode.members, IsLiteralMember)
      yielding == SelectSeq(literals, LAMBDA m : HasMethodBelow(m.type))
  IN /\ Len(ns.subNamespaces) = Len(yielding)
     /\ \A j \in DOMAIN ns.subNamespaces :
          j \in DOMAIN yielding
            /\ ns.subNamespaces[j].name = yielding[j].name
            /\ DropsExactlyEmptyLiterals(ns.subNamespaces[j], yielding[j].type)

\* C13: a nested type literal that yields no method and no sub-namespace is
\* not appended to its parent (bottom-up, at every depth), while a top-level
\* member whose type literal yields nothing is returned with empty lists.
C13_NestedEmptyDroppedTopLevelKept ==
  pPhase \in {"parsed", "rendered"} /\ pParsed.either = "Right" =>
    LET declared == DeclaredNamespaceMembers(pSource)
    IN /\ Len(pParsed.right) = Len(declared)
       /\ \A i \in DOMAIN pParsed.right :
            i \in DOMAIN declared
              /\ DropsExactlyEmptyLiterals(pParsed.right[i], declared[i].type)
              /\ (~HasMethodBelow(declared[i].type) =>
                    pParsed.right[i] = [name |-> declared[i].name, methods |-> <<>>,
                                        subNamespaces |-> <<>>])

\* C13 witness: a top-level namespace returned with empty lists although its
\* type literal holds a nested literal, which was dropped
C13_Witness ==
  /\ pPhase = "parsed"
  /\ pParsed.either = "Right"
  /\ LET declared == DeclaredNamespaceMembers(pSource)
     IN \E i \in DOMAIN pParsed.right :
          /\ i \in DOMAIN declared
          /\ IsEmptyNamespace(pParsed.right[i])
          /\ HasNestedLiteral(declared[i].type)

\* ------------------------------------------------------------------------
\* Properties of the members of Methods
\* ------------------------------------------------------------------------
RECURSIVE MethodsClassMembers(_)
RECURSIVE MethodsClassMembersSeq(_)
\* every member of the Methods classes, in source order
MethodsClassMembers(node) ==
  (IF node.kind = "ClassDeclaration" /\ node.name = "Methods" THEN node.members ELSE <<>>)
  \o MethodsClassMembersSeq(node.children)
MethodsClassMembersSeq(nodes) ==
  IF nodes = <<>> THEN <<>>
  ELSE MethodsClassMembers(nodes[1]) \o MethodsClassMembersSeq(Tail(nodes))

IsSkippedMember(m) == m.name \in {apiCallName, filesUploadV2Name}

\* C14 as stated: members named apiCall or filesUploadV2 and members whose
\* type is not a type literal produce no namespace and no error; every other
\* member with a type-literal type produces exactly one namespace.
C14_EveryLiteralMemberOneNamespace ==
  pPhase \in {"parsed", "rendered"} /\ ContainsMethodsClass(pSource) =>
    /\ pParsed.either = "Right"
    /\ NamesOf(pParsed.right) =
         NamesOf(SelectSeq(MethodsClassMembers(pSource),
                           LAMBDA m : ~IsSkippedMember(m) /\ m.type.kind = "TypeLiteral"))

\* C14 amended: members named apiCall or filesUploadV2, members whose type is
\* not a type literal, and members that are not property declarations named
\* by an identifier produce no namespace and no error; every other member
\* produces exactly one namespace.
C14_EveryIdentifierLiteralPropertyOneNamespace ==
  pPhase \in {"parsed", "rendered"} /\ ContainsMethodsClass(pSource) =>
    /\ pParsed.either = "Right"
    /\ NamesOf(pParsed.right) =
         NamesOf(SelectSeq(MethodsClassMembers(pSource),
                           LAMBDA m : /\ ~IsSkippedMember(m)
                                      /\ m.type.kind = "TypeLiteral"
                                      /\ m.kind = "PropertyDeclaration"
                                      /\ m.nameKind = "Identifier"))

\* C14 witness: a class whose members are filesUploadV2 with a type-literal
\* type and one namespace was parsed into that one namespace
C14_Witness ==
  /\ pPhase = "parsed"
  /\ pParsed.either = "Right"
  /\ Len(pParsed.right) = 1
  /\ LET members == MethodsClassMembers(pSource)
     IN /\ Len(members) = 2
        /\ \E i \in DOMAIN members :
             members[i].name = filesUploadV2Name /\ members[i].type.kind = "TypeLiteral"

\* ------------------------------------------------------------------------
\* Properties of the filenames
\* ------------------------------------------------------------------------
\* C15: for top-level namespaces with pairwise distinct names, the filenames
\* generateAllFiles returns (service files and index.ts) are pairwise distinct.
C15_FilenamesDistinct ==
  pPhase = "rendered" =>
    (NoDuplicates(NamesOf(pParsed.right)) =>
       NoDuplicates([k \in DOMAIN pFiles |-> pFiles[k].filename]))

\* ------------------------------------------------------------------------
\* Properties of safeMethodName and toPascalCase
\* ------------------------------------------------------------------------
SevenWords ==
  { <<"d","e","l","e","t","e">>,
    <<"i","m","p","o","r","t">>,
    <<"e","x","p","o","r","t">>,
    <<"d","e","f","a","u","l","t">>,
    <<"c","l","a","s","s">>,
    <<"f","u","n","c","t","i","o","n">>,
    <<"r","e","t","u","r","n">> }

\* C16: safeMethodName(name) is name + "_" exactly when name is one of delete,
\* import, export, default, class, function, return, and name otherwise.
C16_UnderscoreIffReservedWord ==
  "safe" \in sPhase =>
    /\ sInput \in SevenWords => sSafe = Append(sInput, "_")
    /\ sInput \notin SevenWords => sSafe = sInput
    /\ (sSafe # sInput) <=> (sInput \in SevenWords)

\* C16 witness: the helper was applied to the reserved word return
C16_Witness ==
  /\ "safe" \in sPhase
  /\ sInput = <<"r","e","t","u","r","n">>
  /\ sSafe = <<"r","e","t","u","r","n","_">>

RECURSIVE PascalScan(_, _)
\* one pass over s: a separator is dropped and the next kept character is
\* upper-cased, as is the first one; every other character is copied
PascalScan(s, atStart) ==
  IF s = <<>> THEN <<>>
  ELSE IF s[1] \in {".", "_", "-"} THEN PascalScan(Tail(s), TRUE)
  ELSE <<(IF atStart THEN toUpperCase(s[1]) ELSE s[1])>> \o PascalScan(Tail(s), FALSE)

\* C17: toPascalCase splits at every ".", "_" and "-", upper-cases the first
\* character of each segment, leaves the rest untouched and joins with no
\* separator; the result holds none of the three separators.
C17_PascalCaseSplitsCapitalizesJoins ==
  "pascal" \in sPhase =>
    /\ sPascal = PascalScan(sInput, TRUE)
    /\ \A i \in DOMAIN sPascal : sPascal[i] \notin {".", "_", "-"}
    /\ sInput = <<"c","h","a","t",".","p","o","s","t","M","e","s","s","a","g","e">> => sPascal = <<"C","h","a","t","P","o","s","t","M","e","s","s","a","g","e">>
    /\ sInput = <<"a","d","m","i","n",".","a","p","p","s","_","a","p","p","r","o","v","e","d",".","l","i","s","t">> => sPascal = <<"A","d","m","i","n","A","p","p","s","A","p","p","r","o","v","e","d","L","i","s","t">>
    /\ sInput = <<"a",".","b",".","c">> => sPascal = <<"A","B","C">>

\* C17 witness: the helper was applied to admin.apps_approved.list
C17_Witness ==
  /\ "pascal" \in sPhase
  /\ sInput = <<"a","d","m","i","n",".","a","p","p","s","_","a","p","p","r","o","v","e","d",".","l","i","s","t">>
  /\ sPascal = <<"A","d","m","i","n","A","p","p","s","A","p","p","r","o","v","e","d","L","i","s","t">>

\* ------------------------------------------------------------------------
\* Properties of the retry wrappers
\* ------------------------------------------------------------------------
AuthCodes ==
  {"invalid_auth", "not_authed", "token_revoked", "token_expired", "account_inactive"}

\* the errors the claim lists as retryable
ListedRetryable(e) ==
  \/ e.tag = "SlackRateLimitedError"
  \/ e.tag = "SlackRequestError"
  \/ e.tag = "SlackHttpError" /\ e.statusCode >= 500
  \/ e.tag = "SlackPlatformError" /\ e.error \in {"service_unavailable", "internal_error"}

MaxRetriesOf(options) ==
  IF options = Undefined \/ options = Defined(Undefined) THEN 5
  ELSE options.value.value

\* C19: withRateLimitOnlyRetry re-runs the effect only after a failure tagged
\* SlackRateLimitedError; a failure with any other tag ends the run at once
\* with that error; at most maxRetries + 1 attempts are made (default 5).
C19_OnlyRateLimitRetriedWithinBudget ==
  rPolicy = "withRateLimitOnlyRetry" =>
    /\ \A e \in rRetriedOn : e.tag = "SlackRateLimitedError"
    /\ rLast.kind = "failure" /\ rLast.tag # "SlackRateLimitedError" =>
         rStatus = "done" /\ rOutcome = rLast
    /\ rAttempts <= MaxRetriesOf(rOptions) + 1
    /\ rStatus = "running" /\ rAttempts >= 1 => rLast.tag = "SlackRateLimitedError"

\* C19 witness: with no options the sixth attempt failed rate limited and the
\* run ended with that error
C19_Witness ==
  /\ rPolicy = "withRateLimitOnlyRetry"
  /\ rOptions = Undefined
  /\ rAttempts = 6
  /\ rStatus = "done"
  /\ rOutcome.tag = "SlackRateLimitedError"

\* the safety part of C20
DefaultRetryBounded ==
  rPolicy = "withDefaultRetry" =>
    /\ \A e \in rRetriedOn : ListedRetryable(e)
    /\ Cardinality(rRetriedOn) <= 10
    /\ rAttempts <= 11
    /\ rStatus = "running" /\ rAttempts >= 1 => ListedRetryable(rLast) /\ rAttempts <= 10
    /\ rStatus = "done" =>
         /\ rOutcome = rLast
         /\ \/ rLast.kind = "success"
            \/ rLast.kind = "failure" /\ ~ListedRetryable(rLast)
            \/ rLast.kind = "failure" /\ rAttempts = 11

\* C20: withDefaultRetry re-runs the effect only after a retryable failure and
\* at most 10 times (11 attempts); every run ends, with the first success, the
\* first non-retryable failure or the failure of the last allowed attempt, and
\* reports the error of the final attempt.
C20_DefaultRetryTerminatesWithinEleven ==
  /\ []DefaultRetryBounded
  /\ (rPolicy = "withDefaultRetry") ~> (rStatus = "done")

\* C20 witness: the eleventh attempt failed with a retryable error and the run
\* ended with it
C20_Witness ==
  /\ rPolicy = "withDefaultRetry"
  /\ rAttempts = 11
  /\ rStatus = "done"
  /\ rOutcome = SlackRequestError
  /\ Cardinality(rRetriedOn) >= 2

\* C21: with withRateLimitRetry, after an attempt that failed with
\* SlackRateLimitedError the delay before the next attempt is that error's
\* retryAfter (seconds), and the exponential backoff from baseDelay is used
\* only after the other retryable errors.
C21_RateLimitDelayIsRetryAfter ==
  rPolicy = "withRateLimitRetry" /\ rStatus = "running" /\ rAttempts >= 1 =>
    IF rLast.tag = "SlackRateLimitedError"
    THEN rDelay = rLast.retryAfter * 1000
    ELSE \E jitter \in JitterPercents :
           rDelay = (rBaseDelay * 2^(rAttempts - 1) * jitter) \div 100

\* ------------------------------------------------------------------------
\* Properties of mapSlackError
\* ------------------------------------------------------------------------
SevenTags ==
  {"SlackRequestError", "SlackHttpError", "SlackPlatformError", "SlackRateLimitedError",
   "SlackFileUploadInvalidArgumentsError", "SlackFileUploadReadError", "SlackUnknownError"}

\* the thrown value is an Error that carries the string code c
CarriesCode(t, c) ==
  t.isError /\ t.code.defined /\ t.code.value.isString /\ t.code.value.text = c

ParsedOfRun == parseMethodsSource(createSourceFile(methodsContent)).right

\* C23: when generate succeeds, the metadata record on disk carries the hash of
\* the input text parsed in this run, the method count of the parsed tree and
\* the manifest's version; the result reports the number of top-level
\* namespaces and the same method count and version.
C23_MetadataDescribesParsedInput ==
  pc = "done" /\ mode = "generate" /\ outcome.kind = "success" =>
    /\ metadataFile.status = "ok"
    /\ metadataFile.content.json
    /\ metadataFile.content.methodsFileHash = computeHash(methodsContent)
    /\ metadataFile.content.methodCount = countMethods(ParsedOfRun)
    /\ metadataFile.content.slackWebApiVersion = packageJson.content.slackWebApiVersion
    /\ outcome.namespaceCount = Len(ParsedOfRun)
    /\ outcome.methodCount = countMethods(ParsedOfRun)
    /\ outcome.slackVersion = packageJson.content.slackWebApiVersion

\* C23 witness: a generate over one namespace with two methods has succeeded
\* and replaced a record that described another input
C23_Witness ==
  /\ pc = "done" /\ mode = "generate" /\ outcome.kind = "success"
  /\ methodsContent = TextChat
  /\ outcome.namespaceCount = 1 /\ outcome.methodCount = 2
  /\ metadataFile.content.methodsFileHash = computeHash(TextChat)

\* C24: when creating the output directory fails, generate fails with
\* GeneratedDirCreateError carrying the directory path, not with the
\* WriteFileError of file writes.
C24_DirFailureIsGeneratedDirCreateError ==
  pc = "done" /\ mode = "generate" /\ outcome.kind = "failure"
    /\ outcome.path = GeneratedDir =>
      outcome.tag = "GeneratedDirCreateError"

\* a metadata record that a generate of this behaviour wrote
WrittenByGenerate(meta) == meta.json /\ meta.slackWebApiVersion \in SlackVersions

\* every file generateAllFiles renders from the text is on disk with that content
FilesCurrentFor(text) ==
  LET result == parseMethodsSource(createSourceFile(text))
  IN /\ result.either = "Right"
     /\ \A i \in DOMAIN generateAllFiles(result.right) :
          LET file == generateAllFiles(result.right)[i]
          IN /\ file.filename \in DOMAIN genFiles
             /\ genFiles[file.filename] = file.content

\* C25: whenever check succeeds against a record written by generate, every
\* service file of the current input and index.ts are on disk with exactly the
\* content rendered from the current input.
C25_CheckSuccessMeansFilesCurrent ==
  pc = "done" /\ mode = "check" /\ outcome.kind = "success"
    /\ WrittenByGenerate(existingMetadata) =>
      FilesCurrentFor(methodsFile.content)

\* the failures of absent input: no manifest, no declaration, no Methods class
AbsentInputTags ==
  {"PackageJsonNotFoundError", "MethodsFileNotFoundError", "MethodsClassNotFoundError"}

\* generate has failed for absent input
FailedForAbsentInput ==
  /\ pc = "done" /\ mode = "generate" /\ outcome.kind = "failure"
  /\ outcome.tag \in AbsentInputTags

\* the steps of generate up to and including the parse
BeforeEnsureDir == mode = "generate" /\ pc \in {"g_readVersion", "g_readFile", "g_parse"}

\* C26: a generate that fails because the manifest is missing, the declaration
\* is missing or the input has no Methods class has written nothing: no step it
\* took changed the output directory, a generated file or the metadata record,
\* and it attempted no write and did not reach the directory creation.
C26_AbsentInputFailureWritesNothing ==
  /\ [](FailedForAbsentInput => writeLog = <<>> /\ idx = 0)
  /\ [][BeforeEnsureDir => UNCHANGED <<dirExists, genFiles, metadataFile>>]_vars
  /\ [][pc # "done" /\ pc' = "done" /\ mode = "generate"
          /\ outcome'.tag \in AbsentInputTags => BeforeEnsureDir]_vars

\* C26 witness: generate failed on an input without a Methods class, the output
\* directory still does not exist
C26_Witness ==
  /\ FailedForAbsentInput
  /\ outcome.tag = "MethodsClassNotFoundError"
  /\ ~dirExists /\ genFiles = <<>> /\ metadataFile.status # "ok"

\* ------------------------------------------------------------------------
\* Properties of the rendered wrappers
\* ------------------------------------------------------------------------
RECURSIVE MethodsDepthFirst(_)
RECURSIVE MethodsDepthFirstSeq(_)
\* the methods of a parsed namespace, its own first, then those of its
\* sub-namespaces in declaration order
MethodsDepthFirst(ns) == ns.methods \o MethodsDepthFirstSeq(ns.subNamespaces)

MethodsDepthFirstSeq(nss) ==
  IF nss = <<>> THEN <<>>
  ELSE MethodsDepthFirst(nss[1]) \o MethodsDepthFirstSeq(Tail(nss))

\* the call a wrapper makes for the dotted path
ClientCall(apiPath) == <<"c","l","i","e","n","t",".">> \o apiPath \o <<"(","a","r","g","s",")">>

\* C27: every rendered wrapper calls "client." followed by the apiPath of a
\* method of the tree (bare names, a reserved word without underscore), and
\* its "slack.method" span attribute is that same apiPath.
C27_ClientPathAndSpanAttributeAreApiPath ==
  pPhase = "rendered" =>
    \A i \in DOMAIN pParsed.right :
      LET impls == pFiles[i].content.implementations
          methods == MethodsDepthFirst(pParsed.right[i])
      IN \A k \in DOMAIN impls :
           /\ impls[k].try = ClientCall(impls[k].slackMethod)
           /\ \E m \in DOMAIN methods : methods[m].apiPath = impls[k].slackMethod

\* C27 witness: the wrapper of the method delete of namespace a_b is rendered,
\* its variable carries the underscore, its client path does not
C27_Witness ==
  /\ pPhase = "rendered"
  /\ \E i \in DOMAIN pFiles :
       /\ pFiles[i].content.kind = "service"
       /\ \E k \in DOMAIN pFiles[i].content.implementations :
            LET impl == pFiles[i].content.implementations[k]
            IN /\ impl.varName = <<"d","e","l","e","t","e","_">>
               /\ impl.slackMethod = <<"a","_","b",".","d","e","l","e","t","e">>
               /\ impl.try = ClientCall(impl.slackMethod)

\* C28: the implementation blocks of each service file are the methods of the
\* namespace's sub-tree, one block per method, depth-first with a namespace's
\* own methods before its children's; their number is countMethods of the
\* namespace.
C28_OneBlockPerMethodDepthFirst ==
  pPhase = "rendered" =>
    \A i \in DOMAIN pParsed.right :
      LET impls == pFiles[i].content.implementations
          methods == MethodsDepthFirst(pParsed.right[i])
      IN /\ Len(impls) = countMethods(<<pParsed.right[i]>>)
         /\ Len(impls) = Len(methods)
         /\ \A k \in DOMAIN impls : impls[k].slackMethod = methods[k].apiPath

\* ------------------------------------------------------------------------
\* Properties of the returned object
\* ------------------------------------------------------------------------
RECURSIVE EntriesMatch(_, _, _, _)
\* the entries against the arguments of buildReturnObject: the direct methods
\* in order, then one nested entry per sub-namespace of the map in order
EntriesMatch(parts, methods, subNamespaces, indent) ==
  LET M == Len(methods)
  IN /\ Len(parts) = M + Len(subNamespaces)
     /\ \A i \in 1..M :
          /\ parts[i].indent = indent
          /\ parts[i].nested = <<>>
          /\ parts[i].key = methods[i].exportName
          /\ IF methods[i].exportName = methods[i].varName
             THEN parts[i].kind = "shorthand" /\ parts[i].value = methods[i].exportName
             ELSE parts[i].kind = "pair" /\ parts[i].value = methods[i].varName
     /\ \A j \in 1..Len(subNamespaces) :
          /\ parts[M + j].indent = indent
          /\ parts[M + j].kind = "nested"
          /\ parts[M + j].key = subNamespaces[j].key
          /\ EntriesMatch(parts[M + j].nested, subNamespaces[j].value.implementations,
                          subNamespaces[j].value.subNamespaceResults, indent + 2)

RECURSIVE MethodEntries(_)
\* the variables the method entries of a returned object refer to, in order
MethodEntries(parts) ==
  IF parts = <<>> THEN <<>>
  ELSE (IF parts[1].kind = "nested" THEN MethodEntries(parts[1].nested)
        ELSE <<parts[1].value>>)
       \o MethodEntries(Tail(parts))

\* the result generateServiceFile passes to buildReturnObject
ResultOf(ns) == generateNamespaceMethods(ns, ns.name, serviceNameOf(ns.name), <<>>)

\* C29: at every nesting level the returned object holds one entry per direct
\* method in order, then one nested entry per sub-namespace of the result in
\* order; a method entry is the shorthand exportName when exportName equals
\* varName and the pair exportName: varName otherwise; the method entries are,
\* one for one, the implementations collected from the result.
C29_ReturnObjectMethodsThenNested ==
  pPhase = "rendered" =>
    \A i \in DOMAIN pParsed.right :
      LET parts == pFiles[i].content.returnObj
          result == ResultOf(pParsed.right[i])
          all == collectAllImplementations(result)
      IN /\ EntriesMatch(parts, result.implementations, result.subNamespaceResults, 6)
         /\ MethodEntries(parts) = [k \in DOMAIN all |-> all[k].varName]
         /\ \A k \in 1..Len(pParsed.right[i].methods) :
              parts[k].key = safeMethodName(pParsed.right[i].methods[k].name)

\* C29 witness: a returned object with a direct method entry followed by a
\* nested namespace that holds, two spaces deeper, a pair entry
C29_Witness ==
  /\ pPhase = "rendered"
  /\ \E i \in DOMAIN pParsed.right :
       LET parts == pFiles[i].content.returnObj
       IN /\ Len(parts) = 2
          /\ parts[1].kind = "shorthand" /\ parts[1].indent = 6
          /\ parts[2].kind = "nested"
          /\ Len(parts[2].nested) = 1
          /\ parts[2].nested[1].kind = "pair" /\ parts[2].nested[1].indent = 8
          /\ parts[2].nested[1].key # parts[2].nested[1].value

\* ------------------------------------------------------------------------
\* Properties of the import block
\* ------------------------------------------------------------------------
\* a comes before b by UTF-16 code units: at the first place where they differ
\* a has ended or holds the smaller unit
Precedes(a, b) ==
  \E k \in 1..(Len(b)) :
    /\ k - 1 <= Len(a)
    /\ \A j \in 1..(k - 1) : a[j] = b[j]
    /\ \/ k > Len(a)
       \/ CharCode(a[k]) < CharCode(b[k])

\* the type names the methods of the sub-tree use
TypesUsed(ns) ==
  LET methods == MethodsDepthFirst(ns)
  IN { methods[m].argsType : m \in DOMAIN methods }
       \cup { methods[m].responseType : m \in DOMAIN methods }

\* C30: the import block of a service file lists exactly the argsType and
\* responseType strings used anywhere in the namespace's sub-tree, each once,
\* in strictly ascending order, whatever the order of declaration.
C30_ImportTypesSortedDedupedUnion ==
  pPhase = "rendered" =>
    \A i \in DOMAIN pParsed.right :
      LET types == pFiles[i].content.importTypes
      IN /\ { types[k] : k \in DOMAIN types } = TypesUsed(pParsed.right[i])
         /\ \A k \in 1..(Len(types) - 1) : Precedes(types[k], types[k + 1])

\* C30 witness: methods declared with the types Ab, AB and then A, Ab are
\* rendered with the import block A, AB, Ab
C30_Witness ==
  /\ pPhase = "rendered"
  /\ \E i \in DOMAIN pParsed.right :
       /\ Len(pParsed.right[i].methods) = 2
       /\ pParsed.right[i].methods[1].argsType = <<"A","b">>
       /\ pParsed.right[i].methods[2].responseType = <<"A","b">>
       /\ pFiles[i].content.importTypes = << <<"A">>, <<"A","B">>, <<"A","b">> >>

====
